---- MODULE Spec2Model ----
(***************************************************************************)
(* A model of the WaveWatch III grid-to-visualisation pipeline of          *)
(* scripts/convert-grib-to-geojson.py: the batch orchestrator (main), the  *)
(* feature sampler (convert_grib_file), the LUT builder (build_color_lut), *)
(* the color mapper (apply_color_lut) and the Mercator reprojector         *)
(* (reproject_to_mercator).                                                *)
(*                                                                         *)
(* Numbers.  A float is modelled by the integer number of hundredths of    *)
(* its exact value (1.0 is 100, the swell threshold 0.1 is 10); NaN is a   *)
(* value outside the range of every number of the model.  The inputs are   *)
(* drawn from values a binary float holds exactly or that are no decimal   *)
(* tie, so rounding on the exact value is what Python's round() does.      *)
(***************************************************************************)
EXTENDS Integers, Sequences, FiniteSets, TLC

VARIABLES
    \* main(): the batch run
    grib_files,      \* sorted(glob.glob(grib_pattern)): the inputs, in order
    pc,              \* where main() is: "idle", "loop", "report", "done", "crashed"
    idx,             \* 1-based position of the next input of the for loop
    total_features,  \* main's total_features
    f000_output,     \* main's f000_output (None or the hour-0 output path)
    failed_files,    \* main's failed_files
    outputs,         \* the files under OUTPUT_DIR: records [kind, hour, src, complete]
    succeeded,       \* main's succeeded (set by the summary)
    exit_status,     \* the process's exit status once main() has ended
    attempts,        \* history: for each input attempted, how its conversion ended
    \* convert_grib_file(): the feature sampler's loop
    data,            \* the decoded grids of one forecast hour
    step,            \* the stride of the two range() loops
    spc,             \* "idle", "scan", "done"
    lat_idx,
    lon_idx,
    features,
    skipped_land,
    visited,         \* history: the cells the loop body ran for, in order
    \* build_color_lut()
    ramp,            \* color_ramp
    lut_size,
    lut,             \* the table under construction (0-based function)
    seg,             \* the for loop's i (0-based segment); -1 before/after
    lpc,             \* "idle", "segments", "last", "done"
    written,         \* history: how many assignments each entry of lut received
    \* apply_color_lut() and reproject_to_mercator() on one raster
    grid,            \* the layer's full-resolution array: [h, w, at]
    shifted,         \* np.roll(data, w // 2, axis=1)
    out_shape,       \* <<output_height, output_width>>
    mercator,        \* reproject_to_mercator's output: [scale, px]
    indices,         \* apply_color_lut's indices
    rgba,            \* apply_color_lut's output
    layer,           \* which of the three layers is rendered (1..3)
    rpc,             \* "idle", "input", "shifted", "reprojected", "mapped"
    luts,            \* the module's WAVE_HEIGHT_LUT, WAVE_PERIOD_LUT, WIND_SPEED_LUT
    calls,           \* history: the number of apply_color_lut calls made
    \* convert_longitude() on one longitude of the grid's axis
    lon_in,          \* float(lons[lon_idx]): the raw longitude
    lon_out,         \* the value convert_longitude last returned
    lon_calls,       \* how many times it was applied (to lon_in, then to lon_out)
    \* fetch-buoys.py: parse_float() / parse_int() on one field of a row
    value,           \* the argument: a text (sequence of characters) or None
    parser,          \* "parse_float" or "parse_int"
    parsed,          \* what the call returned, or the exception it raised
    ppc,             \* "idle", "call", "returned", "raised"
    \* fetch-buoys.py: validate_value()
    candidate,       \* the argument value
    field_name,
    validated,       \* what the call returned
    vpc,             \* "idle", "call", "returned"
    \* fetch-buoys.py: build_geojson()
    stations,        \* the stations dict: its items, in insertion order
    observations,    \* the observations dict: station id -> obs
    station_pos,     \* 1-based position of the for loop in stations.items()
    buoy_features,   \* build_geojson's features
    skipped_empty,
    geojson,         \* the metadata of the collection returned
    bpc,             \* "idle", "loop", "returned"
    \* sandbars-ingestion: ingest_ndbc()
    stations_to_fetch,  \* the station ids, in order
    nd_pos,          \* 1-based position of the for loop
    success_count,
    fail_count,
    stations_table,  \* the station ids in the database table stations
    buoy_readings,   \* the station ids with a row in buoy_readings
    nd_outcomes,     \* history: what happened to each station processed
    npc,             \* "idle", "loop", "returned"
    \* sandbars-ingestion: ingest_wavewatch()
    west_fetch,      \* history: the western request: "failed", "skipped" or its points
    east_fetch,      \* history: the eastern request, likewise
    all_points,      \* what fetch_global_wavewatch returned
    writes,          \* history: the storage writes attempted, in order
    ww_result,       \* what ingest_wavewatch returned
    wpc              \* "idle", "start", "fetched", "grid", "run", "returned", "raised"

batchVars == <<grib_files, pc, idx, total_features, f000_output, failed_files,
               outputs, succeeded, exit_status, attempts>>
samplerVars == <<data, step, spc, lat_idx, lon_idx, features, skipped_land, visited>>
lutVars == <<ramp, lut_size, lut, seg, lpc, written>>
rasterVars == <<grid, shifted, out_shape, mercator, indices, rgba, layer, rpc,
                luts, calls>>
lonVars == <<lon_in, lon_out, lon_calls>>
buoyVars == <<value, parser, parsed, ppc, candidate, field_name, validated, vpc,
              stations, observations, station_pos, buoy_features, skipped_empty,
              geojson, bpc>>
ndbcVars == <<stations_to_fetch, nd_pos, success_count, fail_count, stations_table,
              buoy_readings, nd_outcomes, npc>>
wwVars == <<west_fetch, east_fetch, all_points, writes, ww_result, wpc>>
ingestVars == <<ndbcVars, wwVars>>
vars == <<batchVars, samplerVars, lutVars, rasterVars, lonVars, buoyVars, ingestVars>>

-----------------------------------------------------------------------------
(* Numbers *)

\* Hundredths per unit.
Unit == 100

\* np.nan: a value no number of the model takes.
NaN == -1000000

isnan(v) == v = NaN

\* Python's None, where a number may stand: it is no number of the model.
None == -2000000

Min(a, b) == IF a < b THEN a ELSE b
Max(a, b) == IF a > b THEN a ELSE b

\* floor(a / b) for b > 0 and any integer a (\div of TLA+ is the floor).
FloorDiv(a, b) == a \div b

\* int(x) of Python for a value x = a / b, b > 0: truncation toward zero.
TruncDiv(a, b) == IF a >= 0 THEN a \div b ELSE -((-a) \div b)

\* round(x) to the nearest multiple of m (m > 0, even), ties to the even
\* multiple: what Python's round(float, ndigits) gives on the exact value.
RoundHalfEven(a, m) ==
    LET q == a \div m
        r == a - q * m
    IN  IF 2 * r < m THEN q * m
        ELSE IF 2 * r > m THEN (q + 1) * m
        ELSE IF q % 2 = 0 THEN q * m ELSE (q + 1) * m

\* round1(val): None for NaN, else the value rounded to 1 decimal place.
round1(val) == IF isnan(val) THEN None ELSE RoundHalfEven(val, Unit \div 10)

\* A slip: 180 itself taken to the western half (>= for >).
convert_longitude_from_180(lon) == IF lon >= 180 * Unit THEN lon - 360 * Unit ELSE lon

\* convert_longitude(lon)
convert_longitude(lon) == IF lon > 180 * Unit THEN lon - 360 * Unit ELSE lon

-----------------------------------------------------------------------------
(* File names *)

Digits == <<"0", "1", "2", "3", "4", "5", "6", "7", "8", "9">>

IsDigit(c) == \E d \in 1..10 : Digits[d] = c

DigitVal(c) == (CHOOSE d \in 1..10 : Digits[d] = c) - 1

\* f"{h:03d}": at least three digits, zero-padded.
Format03d(h) ==
    IF h < 1000
    THEN <<Digits[(h \div 100) + 1], Digits[((h \div 10) % 10) + 1], Digits[(h % 10) + 1]>>
    ELSE <<Digits[(h \div 1000) + 1], Digits[((h \div 100) % 10) + 1],
           Digits[((h \div 10) % 10) + 1], Digits[(h % 10) + 1]>>

\* f"{h:02d}": a name some other producer might have written.
Format02d(h) == <<Digits[((h \div 10) % 10) + 1], Digits[(h % 10) + 1]>>

\* A file matched by "gfswave.*.global.0p25.f*.grib2" is [cycle, tail]: the
\* text matched by the first * (a model cycle, numbered) and by the second.
\* The characters of its name before ".grib2", from the pattern's ".f" on:
NameStem(file) == <<".", "f">> \o file.tail

\* A slip: the '.' before the 'f' not required.
extract_forecast_hour_any_f(file) ==
    LET s == NameStem(file)
        n == Len(s)
    IN  IF /\ n >= 4
           /\ s[n - 3] = "f"
           /\ IsDigit(s[n - 2]) /\ IsDigit(s[n - 1]) /\ IsDigit(s[n])
        THEN 100 * DigitVal(s[n - 2]) + 10 * DigitVal(s[n - 1]) + DigitVal(s[n])
        ELSE None

\* extract_forecast_hour(filename): re.search(r'\.f(\d{3})\.grib2$').
extract_forecast_hour(file) ==
    LET s == NameStem(file)
        n == Len(s)
    IN  IF /\ n >= 5
           /\ s[n - 4] = "."
           /\ s[n - 3] = "f"
           /\ IsDigit(s[n - 2]) /\ IsDigit(s[n - 1]) /\ IsDigit(s[n])
        THEN 100 * DigitVal(s[n - 2]) + 10 * DigitVal(s[n - 1]) + DigitVal(s[n])
        ELSE None

\* os.path.basename(grib_file): the identifier of an input.
basename(file) == <<file.cycle, file.tail>>

-----------------------------------------------------------------------------
(* fetch-buoys.py: the fields of a row of latest_obs.txt *)

\* A text is the sequence of its characters.  None, where a text may stand,
\* is a sequence no text is; MM is the marker of a missing value.
NoneText == <<"None">>
MM == <<"M", "M">>

\* What float(), int() and the parsers give: None, the float num / scale
\* (scale a power of 10), inf or -inf (num the sign), nan, the integer num,
\* or the exception raised.
Result(kind, num, scale) == [kind |-> kind, num |-> num, scale |-> scale]
NoneResult == Result("None", 0, 1)
ValueError == Result("ValueError", 0, 1)
OverflowError == Result("OverflowError", 0, 1)
FloatInf(sign) == Result("inf", sign, 1)
FloatNaN == Result("nan", 0, 1)
AnInt(num) == Result("int", num, 1)

\* The float num / scale, written with the least scale.
RECURSIVE AFloat(_, _)
AFloat(num, scale) ==
    IF scale > 1 /\ num % 10 = 0 THEN AFloat(num \div 10, scale \div 10)
    ELSE Result("float", num, scale)

RECURSIVE Pow10(_)
Pow10(k) == IF k = 0 THEN 1 ELSE 10 * Pow10(k - 1)

RECURSIVE DigitsValue(_)
DigitsValue(ds) ==
    IF ds = <<>> THEN 0
    ELSE 10 * DigitsValue(SubSeq(ds, 1, Len(ds) - 1)) + DigitVal(ds[Len(ds)])

\* float(text) on the texts of the model, which are made of the characters
\* - . 0 1 5 9 M a f i n: an optional sign, then inf, nan, or decimal
\* digits with at most one point and at least one digit; anything else
\* raises ValueError.  The texts are short, so the double nearest to the
\* decimal truncates as the decimal does.
float(text) ==
    LET neg == text # <<>> /\ text[1] = "-"
        body == IF neg THEN Tail(text) ELSE text
        points == {k \in 1..Len(body) : body[k] = "."}
        digits == SelectSeq(body, IsDigit)
    IN  IF body = <<"i", "n", "f">> THEN FloatInf(IF neg THEN -1 ELSE 1)
        ELSE IF body = <<"n", "a", "n">> THEN FloatNaN
        ELSE IF /\ digits # <<>>
                /\ Cardinality(points) <= 1
                /\ Len(digits) + Cardinality(points) = Len(body)
             THEN LET frac == IF points = {} THEN 0
                              ELSE Len(body) - (CHOOSE k \in points : TRUE)
                      num == DigitsValue(digits)
                  IN  AFloat(IF neg THEN -num ELSE num, Pow10(frac))
             ELSE ValueError

\* int(x) of a float: truncation toward zero; ValueError for nan,
\* OverflowError for an infinity.
int(x) ==
    CASE x.kind = "nan" -> ValueError
      [] x.kind = "inf" -> OverflowError
      [] OTHER -> AnInt(TruncDiv(x.num, x.scale))

\* parse_float(value): only ValueError is caught.
parse_float(v) ==
    IF v = NoneText \/ v = MM \/ v = <<>> THEN NoneResult
    ELSE IF float(v) = ValueError THEN NoneResult
    ELSE float(v)

\* parse_int(value): int(float(value)); only ValueError is caught, an
\* OverflowError leaves the function.
parse_int(v) ==
    IF v = NoneText \/ v = MM \/ v = <<>> THEN NoneResult
    ELSE IF float(v) = ValueError THEN NoneResult
    ELSE IF int(float(v)) = ValueError THEN NoneResult
    ELSE int(float(v))

\* float('inf') in hundredths: above every number of the model.
Inf == 100000000

\* a <= b on floats: False when either is nan.
Leq(a, b) == ~isnan(a) /\ ~isnan(b) /\ a <= b

\* VALID_RANGES, in hundredths.
VALID_RANGES ==
    [wave_height |-> <<0, 30 * Unit>>,
     dominant_period |-> <<1 * Unit, 30 * Unit>>,
     average_period |-> <<1 * Unit, 30 * Unit>>,
     wave_direction |-> <<0, 360 * Unit>>,
     wind_speed |-> <<0, 100 * Unit>>,
     wind_direction |-> <<0, 360 * Unit>>,
     wind_gust |-> <<0, 150 * Unit>>,
     water_temp |-> <<-5 * Unit, 40 * Unit>>,
     air_temp |-> <<-60 * Unit, 60 * Unit>>,
     pressure |-> <<850 * Unit, 1100 * Unit>>]

\* A slip: the upper bound of a range excluded.
validate_value_below_max(v, name) ==
    IF v = None THEN None
    ELSE IF name \notin DOMAIN VALID_RANGES THEN v
    ELSE IF Leq(VALID_RANGES[name][1], v) /\ ~Leq(VALID_RANGES[name][2], v)
         THEN v ELSE None

\* validate_value(value, field_name)
validate_value(v, name) ==
    IF v = None THEN None
    ELSE IF name \notin DOMAIN VALID_RANGES THEN v
    ELSE IF Leq(VALID_RANGES[name][1], v) /\ Leq(v, VALID_RANGES[name][2])
         THEN v ELSE None

\* The keys of obs that fetch_latest_observations fills from a row.
ObservationFields ==
    <<"wave_height", "dominant_period", "average_period", "wave_direction",
      "wind_speed", "wind_direction", "wind_gust", "water_temp", "air_temp",
      "pressure">>

\* A slip: a value of 0 taken for no value (any(v ...) for any(v is not None ...)).
has_data_truthy(obs) ==
    \E k \in DOMAIN obs \ {"observation_time"} : obs[k] # None /\ obs[k] # 0

\* has_data of build_geojson: obs is a function from its keys.
has_data(obs) ==
    \E k \in DOMAIN obs \ {"observation_time"} : obs[k] # None

\* dict.get(key): None for a missing key.
Get(obs, key) == IF key \in DOMAIN obs THEN obs[key] ELSE None

\* observations.get(station_id, {})
ObsOf(obsv, station_id) ==
    IF station_id \in DOMAIN obsv THEN obsv[station_id] ELSE <<>>

\* The feature build_geojson appends for a station and its obs.
BuoyFeature(station, obs) ==
    [coordinates |-> <<station.lon, station.lat>>,
     properties |->
        [station_id |-> station.id,
         wave_height |-> Get(obs, "wave_height"),
         dominant_period |-> Get(obs, "dominant_period"),
         average_period |-> Get(obs, "average_period"),
         wave_direction |-> Get(obs, "wave_direction"),
         wind_speed |-> Get(obs, "wind_speed"),
         wind_direction |-> Get(obs, "wind_direction"),
         wind_gust |-> Get(obs, "wind_gust"),
         water_temp |-> Get(obs, "water_temp"),
         air_temp |-> Get(obs, "air_temp"),
         pressure |-> Get(obs, "pressure"),
         observation_time |-> Get(obs, "observation_time")]]

-----------------------------------------------------------------------------
(* The feature sampler: the loop of convert_grib_file *)

\* SAMPLE_STEP and MIN_SWELL_HEIGHT of the script.
SAMPLE_STEP == 24
MIN_SWELL_HEIGHT == 10

\* A slip: a swell of exactly the minimum height dropped (<= for <).
RECURSIVE SwellsAboveMinimum(_, _, _)
SwellsAboveMinimum(d, c, p) ==
    IF p > 2 THEN <<>>
    ELSE LET height == d.shts[p][c]
             period == d.mpts[p][c]
             direction == d.swdir[p][c]
         IN  IF isnan(height) \/ height <= 10
             THEN SwellsAboveMinimum(d, c, p + 1)
             ELSE <<[height |-> round1(height),
                     period |-> round1(period),
                     direction |-> IF ~isnan(direction)
                                   THEN TruncDiv(direction, Unit) ELSE 0]>>
                  \o SwellsAboveMinimum(d, c, p + 1)

\* The swells list of one cell: partitions 0, 1, 2 in that order.
RECURSIVE SwellsFrom(_, _, _)
SwellsFrom(d, c, p) ==
    IF p > 2 THEN <<>>
    ELSE LET height == d.shts[p][c]
             period == d.mpts[p][c]
             direction == d.swdir[p][c]
         IN  IF isnan(height) \/ height < MIN_SWELL_HEIGHT
             THEN SwellsFrom(d, c, p + 1)
             ELSE <<[height |-> round1(height),
                     period |-> round1(period),
                     direction |-> IF ~isnan(direction)
                                   THEN TruncDiv(direction, Unit) ELSE 0]>>
                  \o SwellsFrom(d, c, p + 1)

\* A slip: the wind direction rounded by round() in place of int().
WindOfRounded(d, c) ==
    [speed |-> IF ~isnan(d.ws[c]) THEN round1(d.ws[c]) ELSE 0,
     direction |-> IF ~isnan(d.wdir[c])
                   THEN RoundHalfEven(d.wdir[c], Unit) \div Unit ELSE 0]

\* The wind record of one cell.
WindOf(d, c) ==
    [speed |-> IF ~isnan(d.ws[c]) THEN round1(d.ws[c]) ELSE 0,
     direction |-> IF ~isnan(d.wdir[c]) THEN TruncDiv(d.wdir[c], Unit) ELSE 0]

\* A slip: a wind sea of height 0 reported (>= for >).
WindWavesOfNonNegative(d, c) ==
    LET ww_height == d.shww[c]
    IN  IF ~isnan(ww_height) /\ ww_height >= 0
        THEN <<[height |-> round1(ww_height),
                period |-> IF ~isnan(d.mpww[c]) THEN round1(d.mpww[c]) ELSE None,
                direction |-> IF ~isnan(d.wvdir[c])
                              THEN TruncDiv(d.wvdir[c], Unit) ELSE None]>>
        ELSE <<>>

\* wind_waves of one cell: <<>> stands for None, <<w>> for the dict w.
WindWavesOf(d, c) ==
    LET ww_height == d.shww[c]
    IN  IF ~isnan(ww_height) /\ ww_height > 0
        THEN <<[height |-> round1(ww_height),
                period |-> IF ~isnan(d.mpww[c]) THEN round1(d.mpww[c]) ELSE None,
                direction |-> IF ~isnan(d.wvdir[c])
                              THEN TruncDiv(d.wvdir[c], Unit) ELSE None]>>
        ELSE <<>>

\* A slip: the land test left out.
NeverLand(d, c) == FALSE

\* The cells that count as land: np.isnan(wave_height).
IsLand(d, c) == isnan(d.swh[c])

\* The loop body for cell c = <<lat_idx, lon_idx>>: <<>> when the cell is
\* skipped as land, else the one feature appended.  round(x, 2) of a value
\* held in hundredths is the value.
FeatureAt(d, c) ==
    IF IsLand(d, c) THEN <<>>
    ELSE <<[coordinates |-> <<convert_longitude(d.lons[c[2]]), d.lats[c[1]]>>,
            waveHeight |-> round1(d.swh[c]),
            swells |-> SwellsFrom(d, c, 0),
            windWaves |-> WindWavesOf(d, c),
            wind |-> WindOf(d, c)]>>

\* The first cell of the two range(0, n, S) loops, and the cell after c;
\* <<-1, -1>> when the loops are over.
LoopEnd == <<-1, -1>>

FirstCell(d) == IF d.nlat > 0 /\ d.nlon > 0 THEN <<0, 0>> ELSE LoopEnd

\* A slip: the latitude loop stepping by one row.
NextCellEveryRow(d, S, c) ==
    IF c[2] + S < d.nlon THEN <<c[1], c[2] + S>>
    ELSE IF c[1] + 1 < d.nlat THEN <<c[1] + 1, 0>>
    ELSE <<-1, -1>>

NextCell(d, S, c) ==
    IF c[2] + S < d.nlon THEN <<c[1], c[2] + S>>
    ELSE IF c[1] + S < d.nlat THEN <<c[1] + S, 0>>
    ELSE LoopEnd

\* The features list at the end of the loops, started at cell c.
RECURSIVE FeaturesFrom(_, _, _)
FeaturesFrom(d, S, c) ==
    IF c = LoopEnd THEN <<>>
    ELSE FeatureAt(d, c) \o FeaturesFrom(d, S, NextCell(d, S, c))

\* len(features), the point_count convert_grib_file returns.
PointCount(d, S) == Len(FeaturesFrom(d, S, FirstCell(d)))

-----------------------------------------------------------------------------
(* Decoded grids *)

\* The axes of an nlat x nlon global grid: latitude descending from +90,
\* longitude ascending from 0 in the 0..360 convention.
LatAxis(nlat) ==
    [i \in 0..(nlat - 1) |->
        IF nlat = 1 THEN 90 * Unit ELSE 90 * Unit - (i * 180 * Unit) \div (nlat - 1)]
LonAxis(nlon) == [j \in 0..(nlon - 1) |-> (j * 360 * Unit) \div nlon]

Cells(nlat, nlon) == (0..(nlat - 1)) \X (0..(nlon - 1))

\* What cfgrib hands over for one forecast hour: the wave-height grid swh and
\* per-cell fields; sw[p] is <<height, period, direction>> of partition p.
GridData(nlat, nlon, swh, sw, ws, wdir, shww, mpww, wvdir) ==
    [nlat |-> nlat, nlon |-> nlon,
     lats |-> LatAxis(nlat), lons |-> LonAxis(nlon),
     swh |-> swh,
     shts |-> [p \in 0..2 |-> [c \in Cells(nlat, nlon) |-> sw[p][1]]],
     mpts |-> [p \in 0..2 |-> [c \in Cells(nlat, nlon) |-> sw[p][2]]],
     swdir |-> [p \in 0..2 |-> [c \in Cells(nlat, nlon) |-> sw[p][3]]],
     ws |-> [c \in Cells(nlat, nlon) |-> ws],
     wdir |-> [c \in Cells(nlat, nlon) |-> wdir],
     shww |-> [c \in Cells(nlat, nlon) |-> shww],
     mpww |-> [c \in Cells(nlat, nlon) |-> mpww],
     wvdir |-> [c \in Cells(nlat, nlon) |-> wvdir]]

\* A sea state used where only the wave-height grid varies: three swells of
\* 1.25 m / 0.04 m / 0.1 m, wind 12.34 m/s from 359.9 degrees.
CalmSwells == [p \in 0..2 |->
    CASE p = 0 -> <<125, 1204, 27050>>
      [] p = 1 -> <<4, 804, 9000>>
      [] OTHER -> <<10, 1506, NaN>>]

WaveGrid(nlat, nlon, swh) ==
    GridData(nlat, nlon, swh, CalmSwells, 1234, 35990, 36, 512, 18000)

NoData == WaveGrid(0, 0, <<>>)

-----------------------------------------------------------------------------
(* main(): the batch run *)

\* Bounds of the batches explored.
MaxCycle == 2
MaxHour == 1
MaxFiles == 2
MaxBatch == 10

Layers == <<"wave-height", "wave-period", "wind-speed">>

File(cycle, tail) == [cycle |-> cycle, tail |-> tail]

\* sorted(): the order of str on the names.  The names differ in the cycle
\* text first; "." (which follows the tail) sorts before every digit.
CharRank(c) == IF IsDigit(c) THEN DigitVal(c) + 1 ELSE 0

RECURSIVE TailLess(_, _)
TailLess(a, b) ==
    IF a = <<>> THEN b # <<>>
    ELSE IF b = <<>> THEN FALSE
    ELSE IF CharRank(Head(a)) # CharRank(Head(b))
         THEN CharRank(Head(a)) < CharRank(Head(b))
         ELSE TailLess(Tail(a), Tail(b))

NameLess(f, g) ==
    \/ f.cycle < g.cycle
    \/ f.cycle = g.cycle /\ TailLess(f.tail, g.tail)

sorted(S) ==
    CHOOSE s \in [1..Cardinality(S) -> S] :
        \A a, b \in 1..Cardinality(S) : a < b => NameLess(s[a], s[b])

\* The files glob may find: every cycle's hours, well named, and for each
\* cycle one file whose hour was written with two digits.
Candidates ==
    {File(c, Format03d(h)) : c \in 1..MaxCycle, h \in 0..MaxHour}
        \cup {File(c, Format02d(MaxHour)) : c \in 1..MaxCycle}

\* How one call of convert_grib_file ends: it raises at stage 0 (decoding,
\* nothing written), 1..3 (saving that layer's PNG, the layers before it
\* written), 4 (sampling or opening the output, three PNGs written), 5
\* (json.dump, the output left truncated), or returns (6).
Returned == 6
Stages == 0..Returned

\* generate_raster_pngs and the json.dump of convert_grib_file: the files a
\* call that ends at stage st leaves under OUTPUT_DIR, over those there.
Put(outs, kind, hour, src, complete) ==
    {o \in outs : ~(o.kind = kind /\ o.hour = hour)}
        \cup {[kind |-> kind, hour |-> hour, src |-> src, complete |-> complete]}

RECURSIVE WritePngs(_, _, _, _)
WritePngs(outs, hour, src, n) ==
    IF n = 0 THEN outs
    ELSE Put(WritePngs(outs, hour, src, n - 1), Layers[n], hour, src, TRUE)

OutputsAfter(outs, hour, src, st) ==
    LET pngs == WritePngs(outs, hour, src, Min(Max(st - 1, 0), 3))
    IN  IF st = Returned THEN Put(pngs, "wave-data", hour, src, TRUE)
        ELSE IF st = 5 THEN Put(pngs, "wave-data", hour, src, FALSE)
        ELSE pngs

\* The name of an output file without its extension: f"{name}-f{hour:03d}".
OutputName(o) == <<o.kind, "-", "f">> \o Format03d(o.hour)

\* The kinds of file a call left whole under its own name.
Wrote(outs, hour, src) ==
    {o.kind : o \in {x \in outs : x.hour = hour /\ x.src = src /\ x.complete}}

AllKinds == {Layers[n] : n \in 1..3} \cup {"wave-data"}

\* A slip: a success rate of exactly 0.9 taken as too low.
TooManyFailuresInclusive(ok, total) == 10 * ok <= 9 * total

\* succeeded / len(grib_files) < 0.9.  The quotient of two integers below
\* 2^53 is correctly rounded, so it is below the double 0.9 exactly when
\* 10 * succeeded < 9 * len(grib_files).
TooManyFailures(ok, total) == 10 * ok < 9 * total

\* A slip: the newest failure put first.
RecordFailureFirst(failed, grib_file) == <<basename(grib_file)>> \o failed

\* failed_files.append(os.path.basename(grib_file))
RecordFailure(failed, grib_file) == Append(failed, basename(grib_file))

BatchIdle ==
    /\ grib_files = <<>> /\ pc = "idle" /\ idx = 0 /\ total_features = 0
    /\ f000_output = None /\ failed_files = <<>> /\ outputs = {}
    /\ succeeded = None /\ exit_status = None /\ attempts = <<>>

\* main() up to the loop, on the files found.
MainStarts(files) ==
    /\ grib_files = files
    /\ pc = "start" /\ idx = 1 /\ total_features = 0
    /\ f000_output = None /\ failed_files = <<>> /\ outputs = {}
    /\ succeeded = None /\ exit_status = None /\ attempts = <<>>

\* if not grib_files: return
NoFiles ==
    /\ pc = "start" /\ grib_files = <<>>
    /\ pc' = "done" /\ exit_status' = 0
    /\ UNCHANGED <<grib_files, idx, total_features, f000_output, failed_files,
                   outputs, succeeded, attempts>>

EnterLoop ==
    /\ pc = "start" /\ grib_files # <<>>
    /\ pc' = "loop"
    /\ UNCHANGED <<grib_files, idx, total_features, f000_output, failed_files,
                   outputs, succeeded, exit_status, attempts>>

\* One iteration of the for loop whose file name holds no forecast hour:
\* f"{forecast_hour:03d}" raises TypeError outside the try, main() ends.
NameCrash ==
    /\ pc = "loop" /\ idx <= Len(grib_files)
    /\ extract_forecast_hour(grib_files[idx]) = None
    /\ pc' = "crashed" /\ exit_status' = 1
    /\ UNCHANGED <<grib_files, idx, total_features, f000_output, failed_files,
                   outputs, succeeded, attempts>>

\* One iteration of the for loop: convert_grib_file ends at stage st, having
\* decoded grids d.
ProcessFile(stages, grids) ==
    /\ pc = "loop" /\ idx <= Len(grib_files)
    /\ LET grib_file == grib_files[idx]
           forecast_hour == extract_forecast_hour(grib_file)
       IN  /\ forecast_hour # None
           /\ \E st \in stages, d \in grids :
                /\ outputs' = OutputsAfter(outputs, forecast_hour, basename(grib_file), st)
                /\ attempts' = Append(attempts,
                      [file |-> basename(grib_file), stage |-> st,
                       count |-> PointCount(d, SAMPLE_STEP),
                       wrote |-> Wrote(outputs', forecast_hour, basename(grib_file))])
                /\ IF st = Returned
                   THEN /\ total_features' = total_features + PointCount(d, SAMPLE_STEP)
                        /\ f000_output' = IF forecast_hour = 0 THEN forecast_hour
                                          ELSE f000_output
                        /\ UNCHANGED failed_files
                   ELSE /\ failed_files' = RecordFailure(failed_files, grib_file)
                        /\ UNCHANGED <<total_features, f000_output>>
    /\ idx' = idx + 1
    /\ UNCHANGED <<grib_files, pc, succeeded, exit_status>>

\* if f000_output: shutil.copy(f000_output, legacy_output): the file now
\* under the hour-0 name, whoever wrote it last, copied to wave-data.geojson.
LegacyCopy(outs, f000) ==
    IF f000 # None
    THEN LET src == CHOOSE o \in outs : o.kind = "wave-data" /\ o.hour = f000
         IN  Put(outs, "legacy", 0, src.src, src.complete)
    ELSE outs

\* After the loop: the copy of the hour-0 output, the summary, the verdict.
Report ==
    /\ pc = "loop" /\ idx > Len(grib_files)
    /\ outputs' = LegacyCopy(outputs, f000_output)
    /\ succeeded' = Len(grib_files) - Len(failed_files)
    /\ exit_status' = IF failed_files # <<>>
                         /\ TooManyFailures(Len(grib_files) - Len(failed_files),
                                            Len(grib_files))
                      THEN 1 ELSE 0
    /\ pc' = "done"
    /\ UNCHANGED <<grib_files, idx, total_features, f000_output, failed_files, attempts>>

\* The grids an input of the batch decodes to: one row of 49 cells, sampled
\* at columns 0, 24 and 48; all sea, or land at column 24.
BatchGrids ==
    {WaveGrid(1, 49, [c \in Cells(1, 49) |-> IF c[2] = 24 THEN v ELSE 150]) :
        v \in {NaN, 210}}

SamplerIdle ==
    /\ data = NoData /\ step = 0 /\ spc = "idle" /\ lat_idx = 0 /\ lon_idx = 0
    /\ features = <<>> /\ skipped_land = 0 /\ visited = <<>>

LutIdle ==
    /\ ramp = <<>> /\ lut_size = 0 /\ lut = <<>> /\ seg = 0 /\ lpc = "idle"
    /\ written = <<>>

NoArray == [h |-> 0, w |-> 0, at |-> <<>>]
NoRaster == [scale |-> 0, px |-> <<>>]

RasterIdle ==
    /\ grid = NoArray /\ shifted = NoArray /\ out_shape = <<0, 0>>
    /\ mercator = NoRaster /\ indices = <<>> /\ rgba = <<>>
    /\ layer = 0 /\ rpc = "idle"
    /\ luts = <<>> /\ calls = 0

LonIdle == lon_in = 0 /\ lon_out = 0 /\ lon_calls = 0

BuoyIdle ==
    /\ value = NoneText /\ parser = "" /\ parsed = NoneResult /\ ppc = "idle"
    /\ candidate = None /\ field_name = "" /\ validated = None /\ vpc = "idle"
    /\ stations = <<>> /\ observations = <<>> /\ station_pos = 0
    /\ buoy_features = <<>> /\ skipped_empty = 0 /\ geojson = <<>> /\ bpc = "idle"

NdbcIdle ==
    /\ stations_to_fetch = <<>> /\ nd_pos = 0 /\ success_count = 0 /\ fail_count = 0
    /\ stations_table = {} /\ buoy_readings = {} /\ nd_outcomes = <<>> /\ npc = "idle"

\* A request of fetch_global_wavewatch: not made, failed (an exception), or
\* answered with its points.
Fetch(status, pts) == [status |-> status, points |-> pts]
NoFetch == Fetch("skipped", <<>>)

WaveIdle ==
    /\ west_fetch = NoFetch /\ east_fetch = NoFetch /\ all_points = <<>>
    /\ writes = <<>> /\ ww_result = None /\ wpc = "idle"

IngestIdle == NdbcIdle /\ WaveIdle

\* A batch over any files glob may find, every way each conversion may end.
Init ==
    /\ \E S \in SUBSET Candidates :
          /\ Cardinality(S) <= MaxFiles
          /\ MainStarts(sorted(S))
    /\ SamplerIdle /\ LutIdle /\ RasterIdle /\ LonIdle /\ BuoyIdle /\ IngestIdle

Next ==
    \/ NoFiles /\ UNCHANGED <<samplerVars, lutVars, rasterVars, lonVars, buoyVars, ingestVars>>
    \/ EnterLoop /\ UNCHANGED <<samplerVars, lutVars, rasterVars, lonVars, buoyVars, ingestVars>>
    \/ NameCrash /\ UNCHANGED <<samplerVars, lutVars, rasterVars, lonVars, buoyVars, ingestVars>>
    \/ ProcessFile(Stages, BatchGrids) /\ UNCHANGED <<samplerVars, lutVars, rasterVars, lonVars, buoyVars, ingestVars>>
    \/ Report /\ UNCHANGED <<samplerVars, lutVars, rasterVars, lonVars, buoyVars, ingestVars>>

Spec == Init /\ [][Next]_vars

\* The inputs of a batch taken in any order (each hour handed to a worker of
\* its own, the workers finishing in any order), not only in sorted order.
Orders(S) ==
    {s \in [1..Cardinality(S) -> S] : \A a, b \in 1..Cardinality(S) : a # b => s[a] # s[b]}

InitAnyOrder ==
    /\ \E S \in SUBSET Candidates :
          /\ Cardinality(S) <= MaxFiles
          /\ \E order \in Orders(S) : MainStarts(order)
    /\ SamplerIdle /\ LutIdle /\ RasterIdle /\ LonIdle /\ BuoyIdle /\ IngestIdle

SpecAnyOrder == InitAnyOrder /\ [][Next]_vars

\* main() as a function of the inputs in the order given and of how each
\* conversion ends (fate): the state it ends in, from input k on.
RECURSIVE RunInOrder(_, _, _, _)
RunInOrder(files, fate, k, st) ==
    IF k > Len(files)
    THEN [st EXCEPT !.outputs = LegacyCopy(st.outputs, st.f000_output)]
    ELSE LET grib_file == files[k]
             forecast_hour == extract_forecast_hour(grib_file)
         IN  IF forecast_hour = None THEN [st EXCEPT !.crashed = TRUE]
             ELSE RunInOrder(files, fate, k + 1,
                    [outputs |-> OutputsAfter(st.outputs, forecast_hour,
                                              basename(grib_file), fate[grib_file]),
                     f000_output |-> IF fate[grib_file] = Returned /\ forecast_hour = 0
                                     THEN forecast_hour ELSE st.f000_output,
                     failed_files |-> IF fate[grib_file] = Returned THEN st.failed_files
                                      ELSE RecordFailure(st.failed_files, grib_file),
                     crashed |-> FALSE])

main(files, fate) ==
    RunInOrder(files, fate, 1,
               [outputs |-> {}, f000_output |-> None, failed_files |-> <<>>,
                crashed |-> FALSE])

\* Longer batches, of up to MaxBatch well-named hours of one cycle and
\* possibly one badly named file of the next, in which a conversion either
\* fails in decoding or returns.
InitThreshold ==
    /\ \E n \in 0..MaxBatch, bad \in BOOLEAN :
          MainStarts([k \in 1..n |-> File(1, Format03d(k - 1))]
                     \o (IF bad THEN <<File(2, Format02d(n))>> ELSE <<>>))
    /\ SamplerIdle /\ LutIdle /\ RasterIdle /\ LonIdle /\ BuoyIdle /\ IngestIdle

DecodeFailures == {0, Returned}

AllSea == {WaveGrid(1, 49, [c \in Cells(1, 49) |-> 150])}

NextThreshold ==
    \/ NoFiles /\ UNCHANGED <<samplerVars, lutVars, rasterVars, lonVars, buoyVars, ingestVars>>
    \/ EnterLoop /\ UNCHANGED <<samplerVars, lutVars, rasterVars, lonVars, buoyVars, ingestVars>>
    \/ NameCrash /\ UNCHANGED <<samplerVars, lutVars, rasterVars, lonVars, buoyVars, ingestVars>>
    \/ ProcessFile(DecodeFailures, AllSea) /\ UNCHANGED <<samplerVars, lutVars, rasterVars, lonVars, buoyVars, ingestVars>>
    \/ Report /\ UNCHANGED <<samplerVars, lutVars, rasterVars, lonVars, buoyVars, ingestVars>>

SpecThreshold == InitThreshold /\ [][NextThreshold]_vars

\* Batches of one input, of any name the glob matches: the second * of the
\* pattern matching a 3-digit hour, or any text of up to MaxTail of the
\* characters . f 0 7.
MaxTail == 5

TailChars == {".", "f", "0", "7"}

NameTails ==
    {Format03d(h) : h \in 0..999} \cup UNION {[1..k -> TailChars] : k \in 0..MaxTail}

InitNames ==
    /\ \E tail \in NameTails : MainStarts(<<File(1, tail)>>)
    /\ SamplerIdle /\ LutIdle /\ RasterIdle /\ LonIdle /\ BuoyIdle /\ IngestIdle

NextNames ==
    \/ EnterLoop /\ UNCHANGED <<samplerVars, lutVars, rasterVars, lonVars, buoyVars, ingestVars>>
    \/ NameCrash /\ UNCHANGED <<samplerVars, lutVars, rasterVars, lonVars, buoyVars, ingestVars>>
    \/ ProcessFile(Stages, AllSea)
          /\ UNCHANGED <<samplerVars, lutVars, rasterVars, lonVars, buoyVars, ingestVars>>
    \/ Report /\ UNCHANGED <<samplerVars, lutVars, rasterVars, lonVars, buoyVars, ingestVars>>

SpecNames == InitNames /\ [][NextNames]_vars

-----------------------------------------------------------------------------
(* The feature sampler, one loop iteration at a time *)

\* Bounds of the grids sampled.
MaxLat == 2
MaxLon == 3
MaxStep == 2

\* Wave heights by cell, 1.0, 2.0, ... in row-major order, NaN where land.
BaseHeight(nlon, c) == Unit * (c[1] * nlon + c[2] + 1)

MaskedGrid(nlat, nlon, land) ==
    WaveGrid(nlat, nlon,
             [c \in Cells(nlat, nlon) |-> IF c \in land THEN NaN ELSE BaseHeight(nlon, c)])

\* The values a one-cell sea state is drawn from: swell heights NaN, 0.09,
\* 0.1 and 1.25 m; wind-sea heights NaN, 0, -0.05 and 0.36 m.
SwellHeights == {NaN, 9, 10, 125}
WindSeaHeights == {NaN, 0, -5, 36}

SeaState(h, ws, wdir, shww, mpww, wvdir) ==
    GridData(1, 1, [c \in Cells(1, 1) |-> 125],
             [p \in 0..2 |-> <<h[p], CalmSwells[p][2], CalmSwells[p][3]>>],
             ws, wdir, shww, mpww, wvdir)

SamplerStarts(d, S) ==
    /\ data = d /\ step = S /\ spc = "scan"
    /\ lat_idx = FirstCell(d)[1] /\ lon_idx = FirstCell(d)[2]
    /\ features = <<>> /\ skipped_land = 0 /\ visited = <<>>

InitSampler ==
    /\ \/ \E nlat \in 1..MaxLat, nlon \in 1..MaxLon, S \in 1..MaxStep :
             \E land \in SUBSET Cells(nlat, nlon) :
                SamplerStarts(MaskedGrid(nlat, nlon, land), S)
       \/ \E h \in [0..2 -> SwellHeights], ws \in {NaN, 1234}, wdir \in {NaN, 35990},
             shww \in WindSeaHeights, mpww \in {NaN, 512}, wvdir \in {NaN, 18050} :
                SamplerStarts(SeaState(h, ws, wdir, shww, mpww, wvdir), 1)
    /\ BatchIdle /\ LutIdle /\ RasterIdle /\ LonIdle /\ BuoyIdle /\ IngestIdle

\* The end of one iteration: the next cell of the range() loops, or the end.
Advance ==
    LET nxt == NextCell(data, step, <<lat_idx, lon_idx>>)
    IN  IF nxt = LoopEnd
        THEN spc' = "done" /\ UNCHANGED <<lat_idx, lon_idx>>
        ELSE spc' = "scan" /\ lat_idx' = nxt[1] /\ lon_idx' = nxt[2]

\* if np.isnan(wave_height): skipped_land += 1; continue
SkipLand ==
    /\ spc = "scan"
    /\ IsLand(data, <<lat_idx, lon_idx>>)
    /\ skipped_land' = skipped_land + 1
    /\ visited' = Append(visited, <<lat_idx, lon_idx>>)
    /\ Advance
    /\ UNCHANGED <<data, step, features>>

\* features.append(feature)
EmitFeature ==
    /\ spc = "scan"
    /\ ~IsLand(data, <<lat_idx, lon_idx>>)
    /\ features' = features \o FeatureAt(data, <<lat_idx, lon_idx>>)
    /\ visited' = Append(visited, <<lat_idx, lon_idx>>)
    /\ Advance
    /\ UNCHANGED <<data, step, skipped_land>>

NextSampler ==
    \/ SkipLand /\ UNCHANGED <<batchVars, lutVars, rasterVars, lonVars, buoyVars, ingestVars>>
    \/ EmitFeature /\ UNCHANGED <<batchVars, lutVars, rasterVars, lonVars, buoyVars, ingestVars>>

SpecSampler == InitSampler /\ [][NextSampler]_vars

-----------------------------------------------------------------------------
(* build_color_lut *)

\* LUT_SIZE of the script.
LUT_SIZE == 1024

\* A color ramp is [den, stops]: stops is the list of (position, R, G, B, A)
\* with the position counted in 1/den (0.07 is 7 of den 100).  The ramps of
\* the model have positions whose product with lut_size - 1 a double holds
\* well away from an integer or exactly, so int() of the float product is
\* the floor of the exact one.
Ramp(den, stops) == [den |-> den, stops |-> stops]

ColorOf(stop) == <<stop[2], stop[3], stop[4], stop[5]>>

\* int(pos * (lut_size - 1)) for stop i (1-based)
StopIndex(color_ramp, size, i) ==
    FloorDiv(color_ramp.stops[i][1] * (size - 1), color_ramp.den)

\* One channel of seg at row k of n: (1 - t) * c0 + t * c1 with t = k / n,
\* then astype(np.uint8), which truncates.
Lerp(c0, c1, k, n) == FloorDiv((n - k) * c0 + k * c1, n)

\* np.zeros((lut_size, 4), dtype=np.uint8)
Zeros(size) == [j \in 0..(size - 1) |-> <<0, 0, 0, 0>>]

\* A slip: the slice taken up to and including idx1.
SegmentSliceInclusive(color_ramp, size, i) ==
    StopIndex(color_ramp, size, i)..StopIndex(color_ramp, size, i + 1)

\* The entries of the slice lut[idx0:idx1] of the pair of stops i, i + 1.
SegmentSlice(color_ramp, size, i) ==
    StopIndex(color_ramp, size, i)..(StopIndex(color_ramp, size, i + 1) - 1)

\* The loop body for the pair of stops i, i + 1 (1-based):
\* lut[idx0:idx1] = seg, or nothing when idx1 <= idx0.
WriteSegment(table, color_ramp, size, i) ==
    LET idx0 == StopIndex(color_ramp, size, i)
        idx1 == StopIndex(color_ramp, size, i + 1)
        n == idx1 - idx0
        s0 == ColorOf(color_ramp.stops[i])
        s1 == ColorOf(color_ramp.stops[i + 1])
    IN  IF n <= 0 THEN table
        ELSE [j \in DOMAIN table |->
                IF j \in SegmentSlice(color_ramp, size, i)
                THEN [ch \in 1..4 |-> Lerp(s0[ch], s1[ch], j - idx0, n)]
                ELSE table[j]]

\* lut[-1] = np.array(color_ramp[-1][1:])
WriteLast(table, color_ramp, size) ==
    [table EXCEPT ![size - 1] = ColorOf(color_ramp.stops[Len(color_ramp.stops)])]

RECURSIVE SegmentsDone(_, _, _)
SegmentsDone(color_ramp, size, i) ==
    IF i = 0 THEN Zeros(size)
    ELSE WriteSegment(SegmentsDone(color_ramp, size, i - 1), color_ramp, size, i)

build_color_lut(color_ramp, size) ==
    WriteLast(SegmentsDone(color_ramp, size, Len(color_ramp.stops) - 1), color_ramp, size)

\* The ramps of the script.
WAVE_HEIGHT_COLORS == Ramp(100, <<
    <<0, 30, 60, 180, 160>>, <<7, 0, 120, 200, 180>>, <<13, 0, 180, 220, 190>>,
    <<27, 0, 200, 100, 200>>, <<47, 200, 220, 50, 210>>, <<67, 240, 140, 30, 220>>,
    <<100, 220, 30, 30, 230>> >>)
WAVE_PERIOD_COLORS == Ramp(100, <<
    <<0, 40, 60, 180, 160>>, <<20, 0, 140, 200, 180>>, <<40, 0, 180, 120, 200>>,
    <<60, 80, 200, 80, 210>>, <<80, 180, 100, 200, 220>>, <<100, 140, 40, 180, 230>> >>)
WIND_SPEED_COLORS == Ramp(100, <<
    <<0, 100, 120, 140, 140>>, <<17, 60, 160, 120, 170>>, <<33, 40, 190, 80, 190>>,
    <<50, 160, 210, 50, 200>>, <<67, 220, 180, 30, 210>>, <<83, 240, 100, 30, 220>>,
    <<100, 200, 30, 30, 230>> >>)

WAVE_HEIGHT_LUT == build_color_lut(WAVE_HEIGHT_COLORS, LUT_SIZE)
WAVE_PERIOD_LUT == build_color_lut(WAVE_PERIOD_COLORS, LUT_SIZE)
WIND_SPEED_LUT == build_color_lut(WIND_SPEED_COLORS, LUT_SIZE)

\* Bounds of the ramps and tables built one segment at a time.
MaxStops == 3
MaxLut == 4
PosDen == 4

StopColors == {<<0, 0, 0, 255>>, <<255, 255, 255, 255>>, <<30, 60, 180, 160>>}

\* The increasing sequence of the numbers of a set.
RECURSIVE Ascending(_)
Ascending(S) ==
    IF S = {} THEN <<>>
    ELSE LET m == CHOOSE x \in S : \A y \in S : x <= y
         IN  <<m>> \o Ascending(S \ {m})

\* The valid ramps: at least 2 stops, positions strictly increasing from 0
\* to 1, any colors.
ValidRamps ==
    {Ramp(PosDen, [i \in 1..Len(pos) |->
                     <<pos[i], col[i][1], col[i][2], col[i][3], col[i][4]>>]) :
        <<pos, col>> \in UNION {
            {Ascending({0, PosDen} \cup P)} \X [1..(Cardinality(P) + 2) -> StopColors] :
                P \in {Q \in SUBSET (1..(PosDen - 1)) : Cardinality(Q) + 2 <= MaxStops}}}

InitLut ==
    /\ \E r \in ValidRamps, size \in 2..MaxLut :
          /\ ramp = r /\ lut_size = size /\ lut = Zeros(size)
          /\ written = [j \in 0..(size - 1) |-> 0]
          /\ seg = 1 /\ lpc = "segments"
    /\ BatchIdle /\ SamplerIdle /\ RasterIdle /\ LonIdle /\ BuoyIdle /\ IngestIdle

\* An iteration of the for loop that writes lut[idx0:idx1].
FillSegment ==
    /\ lpc = "segments" /\ seg <= Len(ramp.stops) - 1
    /\ StopIndex(ramp, lut_size, seg + 1) - StopIndex(ramp, lut_size, seg) > 0
    /\ lut' = WriteSegment(lut, ramp, lut_size, seg)
    /\ written' = [j \in DOMAIN written |->
                     IF j \in SegmentSlice(ramp, lut_size, seg)
                     THEN written[j] + 1 ELSE written[j]]
    /\ seg' = seg + 1
    /\ UNCHANGED <<ramp, lut_size, lpc>>

\* if n <= 0: continue
SkipSegment ==
    /\ lpc = "segments" /\ seg <= Len(ramp.stops) - 1
    /\ StopIndex(ramp, lut_size, seg + 1) - StopIndex(ramp, lut_size, seg) <= 0
    /\ seg' = seg + 1
    /\ UNCHANGED <<ramp, lut_size, lut, lpc, written>>

\* Fill last entry, return lut
FillLast ==
    /\ lpc = "segments" /\ seg > Len(ramp.stops) - 1
    /\ lut' = WriteLast(lut, ramp, lut_size)
    /\ written' = [written EXCEPT ![lut_size - 1] = @ + 1]
    /\ lpc' = "done"
    /\ UNCHANGED <<ramp, lut_size, seg>>

NextLut ==
    \/ FillSegment /\ UNCHANGED <<batchVars, samplerVars, rasterVars, lonVars, buoyVars, ingestVars>>
    \/ SkipSegment /\ UNCHANGED <<batchVars, samplerVars, rasterVars, lonVars, buoyVars, ingestVars>>
    \/ FillLast /\ UNCHANGED <<batchVars, samplerVars, rasterVars, lonVars, buoyVars, ingestVars>>

SpecLut == InitLut /\ [][NextLut]_vars

-----------------------------------------------------------------------------
(* apply_color_lut *)

\* The layers of generate_raster_pngs: LUT, ramp and range of layer l.
WAVE_HEIGHT_MIN == 0
WAVE_HEIGHT_MAX == 1500
WAVE_PERIOD_MIN == 0
WAVE_PERIOD_MAX == 2500
WIND_SPEED_MIN == 0
WIND_SPEED_MAX == 3000

LayerLut(l) == CASE l = 1 -> WAVE_HEIGHT_LUT [] l = 2 -> WAVE_PERIOD_LUT
                 [] OTHER -> WIND_SPEED_LUT
LayerRamp(l) == CASE l = 1 -> WAVE_HEIGHT_COLORS [] l = 2 -> WAVE_PERIOD_COLORS
                  [] OTHER -> WIND_SPEED_COLORS
LayerMin(l) == CASE l = 1 -> WAVE_HEIGHT_MIN [] l = 2 -> WAVE_PERIOD_MIN
                 [] OTHER -> WIND_SPEED_MIN
LayerMax(l) == CASE l = 1 -> WAVE_HEIGHT_MAX [] l = 2 -> WAVE_PERIOD_MAX
                 [] OTHER -> WIND_SPEED_MAX

Transparent == <<0, 0, 0, 0>>

\* The three tables as built at module load, by layer.
BuiltLuts == <<WAVE_HEIGHT_LUT, WAVE_PERIOD_LUT, WIND_SPEED_LUT>>

\* A raster is [scale, px]: px maps each pixel to NaN or to its value
\* counted in 1/scale of a hundredth (the weights of an interpolation have
\* the denominator scale).  min_val and max_val are in hundredths.
\*
\* indices of one pixel: np.clip((v - min) / (max - min), 0, 1), 0 where
\* NaN, times len(lut) - 1, then astype(np.int32), which truncates.
ColorIndex(v, scale, size, min_val, max_val) ==
    LET num == v - min_val * scale
        den == (max_val - min_val) * scale
        normalized == IF isnan(v) THEN 0 ELSE Min(Max(num, 0), den)
    IN  TruncDiv(normalized * (size - 1), den)

\* A slip: the NaN pixels not set to transparent.
PixelColorUnmasked(v, scale, table, size, min_val, max_val) ==
    table[ColorIndex(v, scale, size, min_val, max_val)]

\* rgba of one pixel: lut[indices], [0, 0, 0, 0] where NaN.
PixelColor(v, scale, table, size, min_val, max_val) ==
    IF isnan(v) THEN Transparent
    ELSE table[ColorIndex(v, scale, size, min_val, max_val)]

\* A slip: rgba taken for a view of the table, so that setting the NaN
\* pixels to transparent clears the table entries they were looked up at.
LutSharedWithRgba(table, raster, inds) ==
    [j \in DOMAIN table |->
        IF \E k \in DOMAIN raster.px : isnan(raster.px[k]) /\ inds[k] = j
        THEN Transparent ELSE table[j]]

\* The table after apply_color_lut: rgba = lut[indices] indexes with an
\* integer array, which makes a new array, and rgba[nan_mask] = [0, 0, 0, 0]
\* writes to that array; nothing else is assigned.
LutAfterMapping(table, raster, inds) == table

\* apply_color_lut(mercator, lut, vmin, vmax) for the layer rendered.
ApplyColorLut ==
    /\ rpc = "reprojected"
    /\ indices' = [k \in DOMAIN mercator.px |->
                     ColorIndex(mercator.px[k], mercator.scale, LUT_SIZE,
                                LayerMin(layer), LayerMax(layer))]
    /\ rgba' = [k \in DOMAIN mercator.px |->
                  PixelColor(mercator.px[k], mercator.scale, luts[layer], LUT_SIZE,
                             LayerMin(layer), LayerMax(layer))]
    /\ luts' = [luts EXCEPT ![layer] = LutAfterMapping(luts[layer], mercator, indices')]
    /\ calls' = calls + 1
    /\ rpc' = "mapped"
    /\ UNCHANGED <<grid, shifted, out_shape, mercator, layer>>

\* Bound of the rasters color-mapped on their own.
MaxPixels == 2

\* Pixel values around a layer's range: NaN, below, at the minimum, inside
\* (0.99 above the minimum, the middle), at the maximum, above.
PixelValues(l) ==
    {NaN, LayerMin(l) - Unit, LayerMin(l), LayerMin(l) + Unit - 1,
     (LayerMin(l) + LayerMax(l)) \div 2, LayerMax(l), LayerMax(l) + Unit}

InitColor ==
    /\ \E l \in 1..3, n \in 1..MaxPixels :
          \E px \in [1..n -> PixelValues(l)] :
             /\ layer = l /\ mercator = [scale |-> 1, px |-> px]
             /\ rpc = "reprojected"
             /\ grid = NoArray /\ shifted = NoArray /\ out_shape = <<1, n>>
             /\ indices = <<>> /\ rgba = <<>>
    /\ luts = BuiltLuts /\ calls = 0
    /\ BatchIdle /\ SamplerIdle /\ LutIdle /\ LonIdle /\ BuoyIdle /\ IngestIdle

NextColor ==
    \/ ApplyColorLut /\ UNCHANGED <<batchVars, samplerVars, lutVars, lonVars, buoyVars, ingestVars>>

SpecColor == InitColor /\ [][NextColor]_vars

\* The layer loop of generate_raster_pngs over the forecast hours of a
\* batch: one apply_color_lut call after the other, on the same tables.
\* Bound of the number of calls.
MaxCalls == 4

\* The rasters color-mapped in a row: one pixel of each value around the
\* layer's range, or a NaN pixel beside one at the maximum.
RenderRasters(l) ==
    {<<v>> : v \in PixelValues(l)} \cup {<<NaN, LayerMax(l)>>}

InitRender ==
    /\ layer = 1 /\ rpc = "reprojected"
    /\ \E px \in RenderRasters(1) : mercator = [scale |-> 1, px |-> px]
    /\ grid = NoArray /\ shifted = NoArray /\ out_shape = <<1, Len(mercator.px)>>
    /\ indices = <<>> /\ rgba = <<>>
    /\ luts = BuiltLuts /\ calls = 0
    /\ BatchIdle /\ SamplerIdle /\ LutIdle /\ LonIdle /\ BuoyIdle /\ IngestIdle

\* The next iteration of the layer loop, or the first layer of the next
\* forecast hour: its reprojected raster.
NextLayer ==
    /\ rpc = "mapped" /\ calls < MaxCalls
    /\ layer' = (layer % 3) + 1
    /\ \E px \in RenderRasters(layer') :
          /\ mercator' = [scale |-> 1, px |-> px]
          /\ out_shape' = <<1, Len(px)>>
    /\ rpc' = "reprojected"
    /\ UNCHANGED <<grid, shifted, indices, rgba, luts, calls>>

NextRender ==
    \/ ApplyColorLut /\ UNCHANGED <<batchVars, samplerVars, lutVars, lonVars, buoyVars, ingestVars>>
    \/ NextLayer /\ UNCHANGED <<batchVars, samplerVars, lutVars, lonVars, buoyVars, ingestVars>>

SpecRender == InitRender /\ [][NextRender]_vars

-----------------------------------------------------------------------------
(* reproject_to_mercator and the layer loop of generate_raster_pngs *)

\* An array is [h, w, at]: at maps each cell <<row, col>> to its value.
Array(h, w, at) == [h |-> h, w |-> w, at |-> at]

\* A slip: the shift taken from the number of rows (shape[0] for shape[1]).
RollByHeight(a) ==
    Array(a.h, a.w, [c \in Cells(a.h, a.w) |->
                       a.at[<<c[1], (c[2] - a.h \div 2) % a.w>>]])

\* np.roll(data, data.shape[1] // 2, axis=1)
Roll(a) ==
    Array(a.h, a.w, [c \in Cells(a.h, a.w) |->
                       a.at[<<c[1], (c[2] - a.w \div 2) % a.w>>]])

\* in_yy of output row r of output_height rows, in hundredths of the input
\* height minus one: (90 - lat) / 180 with lat the inverse Mercator latitude
\* of y_norm = r / (output_height - 1), clipped at MAX_LATITUDE.  The
\* function is transcendental; its values are tabulated, rounded to the
\* hundredth, for the heights the model uses.
MercatorRow(output_height, r) ==
    CASE output_height = 2 -> <<3, 97>>[r + 1]
      [] output_height = 3 -> <<3, 50, 97>>[r + 1]
      [] output_height = 4 -> <<3, 21, 79, 97>>[r + 1]
      [] output_height = 5 -> <<3, 13, 50, 87, 97>>[r + 1]

RowDen == 100

\* The denominator of the weights of an output of width output_width.
WeightDen(output_width) == RowDen * (output_width - 1)

\* The four input cells output pixel <<r, c>> is interpolated from, each
\* with its bilinear weight (counted in 1 / WeightDen): coords is
\* (in_yy, in_xx) = (MercatorRow * (in_height - 1), c / (output_width - 1)
\* * (in_width - 1)), always inside the input, so that mode='constant' and
\* cval play no part.  A neighbour past the last row or column has weight 0.
Corners(a, output_height, output_width, px) ==
    LET yn == MercatorRow(output_height, px[1]) * (a.h - 1)
        xn == px[2] * (a.w - 1)
        xd == output_width - 1
        y0 == yn \div RowDen
        fy == yn % RowDen
        x0 == xn \div xd
        fx == xn % xd
        y1 == Min(y0 + 1, a.h - 1)
        x1 == Min(x0 + 1, a.w - 1)
    IN  << <<y0, x0, (RowDen - fy) * (xd - fx)>>, <<y0, x1, (RowDen - fy) * fx>>,
           <<y1, x0, fy * (xd - fx)>>, <<y1, x1, fy * fx>> >>

\* A slip: the fourth neighbour left out of the weighted sum.
InterpolateThreeCorners(at, corners) ==
    IF \E n \in 1..4 : isnan(at[<<corners[n][1], corners[n][2]>>]) THEN NaN
    ELSE LET term(n) == corners[n][3] * at[<<corners[n][1], corners[n][2]>>]
         IN  term(1) + term(2) + term(3)

\* map_coordinates(values, coords, order=1) at one pixel: the weighted sum
\* of the four cells (in 1 / WeightDen); NaN if any of them is NaN, as a
\* NaN times any weight is NaN.
Interpolate(at, corners) ==
    IF \E n \in 1..4 : isnan(at[<<corners[n][1], corners[n][2]>>]) THEN NaN
    ELSE LET term(n) == corners[n][3] * at[<<corners[n][1], corners[n][2]>>]
         IN  term(1) + term(2) + term(3) + term(4)

\* A slip: the NaN cells left in the array that is interpolated.
SafeArrayUnchanged(a) == a.at

\* safe_array: the input with 0 in place of NaN.
SafeArray(a) == [c \in Cells(a.h, a.w) |-> IF isnan(a.at[c]) THEN 0 ELSE a.at[c]]

\* nan_float: 1 where the input is NaN, else 0.
NanFloat(a) == [c \in Cells(a.h, a.w) |-> IF isnan(a.at[c]) THEN 1 ELSE 0]

\* nan_interp of one pixel, in 1 / WeightDen.
NanInterp(a, output_height, output_width, px) ==
    Interpolate(NanFloat(a), Corners(a, output_height, output_width, px))

\* reproject_to_mercator(a, output_height, output_width): output, with NaN
\* where nan_interp > 0.5.
reproject_to_mercator(a, output_height, output_width) ==
    [scale |-> WeightDen(output_width),
     px |-> [p \in Cells(output_height, output_width) |->
               IF 2 * NanInterp(a, output_height, output_width, p)
                     > WeightDen(output_width)
               THEN NaN
               ELSE Interpolate(SafeArray(a),
                                Corners(a, output_height, output_width, p))]]

\* Bounds of the arrays rendered and of the (square) output.
MaxInH == 2
MaxInW == 3
MaxOut == 3

\* Layer values by cell, 1.0, 2.0, ... in row-major order, NaN where land;
\* and uniform arrays.
MaskedArray(h, w, land) ==
    Array(h, w, [c \in Cells(h, w) |-> IF c \in land THEN NaN ELSE BaseHeight(w, c)])

UniformValues == {-100, 750, 4000}

UniformArray(h, w, v) == Array(h, w, [c \in Cells(h, w) |-> v])

InitRaster ==
    /\ \E h \in 1..MaxInH, w \in 1..MaxInW, n \in 2..MaxOut, l \in 1..3 :
          /\ \/ \E land \in SUBSET Cells(h, w) : grid = MaskedArray(h, w, land)
             \/ \E v \in UniformValues : grid = UniformArray(h, w, v)
          /\ out_shape = <<n, n>> /\ layer = l
    /\ shifted = NoArray /\ mercator = NoRaster /\ indices = <<>> /\ rgba = <<>>
    /\ rpc = "input"
    /\ luts = BuiltLuts /\ calls = 0
    /\ BatchIdle /\ SamplerIdle /\ LutIdle /\ LonIdle /\ BuoyIdle /\ IngestIdle

\* shifted = np.roll(...)
Shift ==
    /\ rpc = "input"
    /\ shifted' = Roll(grid)
    /\ rpc' = "shifted"
    /\ UNCHANGED <<grid, out_shape, mercator, indices, rgba, layer, luts, calls>>

\* mercator = reproject_to_mercator(shifted)
Reproject ==
    /\ rpc = "shifted"
    /\ mercator' = reproject_to_mercator(shifted, out_shape[1], out_shape[2])
    /\ rpc' = "reprojected"
    /\ UNCHANGED <<grid, shifted, out_shape, indices, rgba, layer, luts, calls>>

NextRaster ==
    \/ Shift /\ UNCHANGED <<batchVars, samplerVars, lutVars, lonVars, buoyVars, ingestVars>>
    \/ Reproject /\ UNCHANGED <<batchVars, samplerVars, lutVars, lonVars, buoyVars, ingestVars>>
    \/ ApplyColorLut /\ UNCHANGED <<batchVars, samplerVars, lutVars, lonVars, buoyVars, ingestVars>>

SpecRaster == InitRaster /\ [][NextRaster]_vars

-----------------------------------------------------------------------------
(* convert_longitude on the raw longitudes *)

\* The raw longitudes: every hundredth of a degree of [0, 360).
RawLongitudes == 0..(360 * Unit - 1)

InitLongitude ==
    /\ lon_in \in RawLongitudes /\ lon_out = lon_in /\ lon_calls = 0
    /\ BatchIdle /\ SamplerIdle /\ LutIdle /\ RasterIdle /\ BuoyIdle /\ IngestIdle

\* lon = convert_longitude(float(lons[lon_idx]))
Convert ==
    /\ lon_calls = 0
    /\ lon_out' = convert_longitude(lon_in)
    /\ lon_calls' = 1
    /\ UNCHANGED lon_in

\* convert_longitude applied to a longitude already converted.
ConvertAgain ==
    /\ lon_calls = 1
    /\ lon_out' = convert_longitude(lon_out)
    /\ lon_calls' = 2
    /\ UNCHANGED lon_in

NextLongitude ==
    \/ Convert /\ UNCHANGED <<batchVars, samplerVars, lutVars, rasterVars, buoyVars, ingestVars>>
    \/ ConvertAgain /\ UNCHANGED <<batchVars, samplerVars, lutVars, rasterVars, buoyVars, ingestVars>>

SpecLongitude == InitLongitude /\ [][NextLongitude]_vars

-----------------------------------------------------------------------------
(* fetch-buoys.py: parse_float and parse_int on the text of one field *)

\* Bound of the texts parsed.
MaxText == 4

Chars == {"-", ".", "0", "1", "5", "9", "M", "a", "f", "i", "n"}

Texts == UNION {[1..k -> Chars] : k \in 0..MaxText}

ParseIdle == value = NoneText /\ parser = "" /\ parsed = NoneResult /\ ppc = "idle"

ValidateIdle == candidate = None /\ field_name = "" /\ validated = None /\ vpc = "idle"

StationsIdle ==
    /\ stations = <<>> /\ observations = <<>> /\ station_pos = 0
    /\ buoy_features = <<>> /\ skipped_empty = 0 /\ geojson = <<>> /\ bpc = "idle"

InitParse ==
    /\ value \in Texts \cup {NoneText}
    /\ parser \in {"parse_float", "parse_int"}
    /\ parsed = NoneResult /\ ppc = "call"
    /\ ValidateIdle /\ StationsIdle
    /\ BatchIdle /\ SamplerIdle /\ LutIdle /\ RasterIdle /\ LonIdle /\ IngestIdle

ParseFloat ==
    /\ ppc = "call" /\ parser = "parse_float"
    /\ parsed' = parse_float(value)
    /\ ppc' = "returned"
    /\ UNCHANGED <<value, parser>>

\* parse_int returns, or the OverflowError of int() leaves it.
ParseInt ==
    /\ ppc = "call" /\ parser = "parse_int"
    /\ parsed' = parse_int(value)
    /\ ppc' = IF parse_int(value) = OverflowError THEN "raised" ELSE "returned"
    /\ UNCHANGED <<value, parser>>

restOfBuoys == <<candidate, field_name, validated, vpc, stations, observations,
                 station_pos, buoy_features, skipped_empty, geojson, bpc>>

pipelineVars == <<batchVars, samplerVars, lutVars, rasterVars, lonVars, ingestVars>>

NextParse ==
    \/ ParseFloat /\ UNCHANGED <<restOfBuoys, pipelineVars>>
    \/ ParseInt /\ UNCHANGED <<restOfBuoys, pipelineVars>>

SpecParse == InitParse /\ [][NextParse]_vars

-----------------------------------------------------------------------------
(* fetch-buoys.py: validate_value on one value *)

\* The values a field is validated on: None, nan, the infinities, and the
\* numbers at, just inside and just outside the ends of its range, and
\* its middle; for a field without a range, the numbers around 0 and 9999.
ValuesAround(lo, hi) ==
    {None, NaN, Inf, -Inf, lo - 1, lo, lo + 1, (lo + hi) \div 2, hi - 1, hi, hi + 1}

FieldValues(name) ==
    IF name \in DOMAIN VALID_RANGES
    THEN ValuesAround(VALID_RANGES[name][1], VALID_RANGES[name][2])
    ELSE ValuesAround(0, 9999 * Unit)

InitValidate ==
    /\ field_name \in DOMAIN VALID_RANGES \cup {"unknown_field", "observation_time"}
    /\ candidate \in FieldValues(field_name)
    /\ validated = None /\ vpc = "call"
    /\ ParseIdle /\ StationsIdle
    /\ BatchIdle /\ SamplerIdle /\ LutIdle /\ RasterIdle /\ LonIdle /\ IngestIdle

ValidateValue ==
    /\ vpc = "call"
    /\ validated' = validate_value(candidate, field_name)
    /\ vpc' = "returned"
    /\ UNCHANGED <<candidate, field_name>>

NextValidate ==
    \/ ValidateValue /\ UNCHANGED <<value, parser, parsed, ppc, stations, observations,
                                     station_pos, buoy_features, skipped_empty,
                                     geojson, bpc, pipelineVars>>

SpecValidate == InitValidate /\ [][NextValidate]_vars

-----------------------------------------------------------------------------
(* fetch-buoys.py: build_geojson on the stations and the observations *)

\* Bound of the stations.
MaxStations == 3

\* Station k of the active-stations list; the identifiers are not in
\* increasing order.
Station(k) == [id |-> 100 - k, lat |-> (40 + k) * Unit, lon |-> -(70 + k) * Unit]

\* An obs of fetch_latest_observations: the ten fields, all None but those
\* of some, and observation_time (minutes of the day) when the row had it.
Obs(some, time) ==
    [k \in {ObservationFields[n] : n \in 1..10}
              \cup (IF time = None THEN {} ELSE {"observation_time"}) |->
        IF k = "observation_time" THEN time
        ELSE IF k \in DOMAIN some THEN some[k] ELSE None]

\* The rows a station may have: nothing but nulls, with and without a time;
\* one value; a value of 0; every field.
ObsRows ==
    {Obs(<<>>, 300), Obs(<<>>, None),
     Obs([wave_height |-> 150], 300),
     Obs([pressure |-> 101300], None),
     Obs([wind_speed |-> 0], 300),
     Obs([wave_height |-> 150, dominant_period |-> 900, average_period |-> 600,
          wave_direction |-> 27000, wind_speed |-> 520, wind_direction |-> 31000,
          wind_gust |-> 700, water_temp |-> 1450, air_temp |-> 1210,
          pressure |-> 101300], 300)}

InitStations ==
    /\ \E n \in 0..MaxStations :
          /\ stations = [k \in 1..n |-> Station(k)]
          /\ \E known \in SUBSET {Station(k).id : k \in 0..n} :
                observations \in [known -> ObsRows]
    /\ station_pos = 1 /\ buoy_features = <<>> /\ skipped_empty = 0
    /\ geojson = <<>> /\ bpc = "loop"
    /\ ParseIdle /\ ValidateIdle
    /\ BatchIdle /\ SamplerIdle /\ LutIdle /\ RasterIdle /\ LonIdle /\ IngestIdle

\* if not has_data: skipped_empty += 1; continue
SkipEmpty ==
    /\ bpc = "loop" /\ station_pos <= Len(stations)
    /\ ~has_data(ObsOf(observations, stations[station_pos].id))
    /\ skipped_empty' = skipped_empty + 1
    /\ station_pos' = station_pos + 1
    /\ UNCHANGED <<stations, observations, buoy_features, geojson, bpc>>

\* features.append(feature)
IncludeStation ==
    /\ bpc = "loop" /\ station_pos <= Len(stations)
    /\ has_data(ObsOf(observations, stations[station_pos].id))
    /\ buoy_features' = Append(buoy_features,
                               BuoyFeature(stations[station_pos],
                                           ObsOf(observations, stations[station_pos].id)))
    /\ station_pos' = station_pos + 1
    /\ UNCHANGED <<stations, observations, skipped_empty, geojson, bpc>>

\* The metadata of the collection, after the loop.
ReturnGeojson ==
    /\ bpc = "loop" /\ station_pos > Len(stations)
    /\ geojson' = [station_count |-> Len(buoy_features),
                   total_stations |-> Len(stations)]
    /\ bpc' = "returned"
    /\ UNCHANGED <<stations, observations, station_pos, buoy_features, skipped_empty>>

fieldVars == <<value, parser, parsed, ppc, candidate, field_name, validated, vpc>>

NextStations ==
    \/ SkipEmpty /\ UNCHANGED <<fieldVars, pipelineVars>>
    \/ IncludeStation /\ UNCHANGED <<fieldVars, pipelineVars>>
    \/ ReturnGeojson /\ UNCHANGED <<fieldVars, pipelineVars>>

SpecStations == InitStations /\ [][NextStations]_vars

-----------------------------------------------------------------------------
(* sandbars-ingestion: ingest_ndbc *)

\* Bound of the stations ingested.
MaxNdbc == 3

\* What the request and the parse of parse_ndbc_realtime may come to: the
\* request fails, the text has fewer than 3 lines, the timestamp does not
\* parse, or a reading is made.
NdbcResponses == {"http_error", "short", "bad_time", "ok"}

\* parse_ndbc_realtime(station_id): <<>> stands for None, <<r>> for the
\* dict r.
parse_ndbc_realtime(station_id, response) ==
    IF response = "ok" THEN <<[ndbc_id |-> station_id]>> ELSE <<>>

\* SupabaseStorage.upsert_buoy_station: the table after the call, and
\* whether the call raised (the database error is not caught).
upsert_buoy_station(table, station_id, db_ok) ==
    [table |-> IF db_ok THEN table \cup {station_id} ELSE table,
     raised |-> ~db_ok]

\* SupabaseStorage.insert_buoy_reading: the upsert is inside try / except
\* Exception, which prints and returns: the call never raises.
insert_buoy_reading(table, reading, db_ok) ==
    [table |-> IF db_ok THEN table \cup {reading.ndbc_id} ELSE table,
     raised |-> FALSE]

InitNdbc ==
    /\ \E n \in 1..MaxNdbc : stations_to_fetch = [k \in 1..n |-> 46000 + k]
    /\ nd_pos = 1 /\ success_count = 0 /\ fail_count = 0
    /\ stations_table = {} /\ buoy_readings = {} /\ nd_outcomes = <<>>
    /\ npc = "loop"
    /\ WaveIdle
    /\ BatchIdle /\ SamplerIdle /\ LutIdle /\ RasterIdle /\ LonIdle /\ BuoyIdle

\* One iteration of the for loop of ingest_ndbc.
IngestStation ==
    /\ npc = "loop" /\ nd_pos <= Len(stations_to_fetch)
    /\ \E station_ok \in BOOLEAN, response \in NdbcResponses, reading_ok \in BOOLEAN :
          LET station_id == stations_to_fetch[nd_pos]
              up == upsert_buoy_station(stations_table, station_id, station_ok)
              obs == parse_ndbc_realtime(station_id, response)
          IN  /\ stations_table' = up.table
              /\ IF obs # <<>>
                 THEN LET ins == insert_buoy_reading(buoy_readings, obs[1], reading_ok)
                      IN  /\ buoy_readings' = ins.table
                          /\ IF ~ins.raised
                             THEN /\ success_count' = success_count + 1
                                  /\ UNCHANGED fail_count
                             ELSE /\ fail_count' = fail_count + 1
                                  /\ UNCHANGED success_count
                 ELSE /\ fail_count' = fail_count + 1
                      /\ UNCHANGED <<success_count, buoy_readings>>
              /\ nd_outcomes' = Append(nd_outcomes,
                                       [station |-> station_id,
                                        upserted |-> station_ok,
                                        response |-> response,
                                        stored |-> obs # <<>> /\ reading_ok])
    /\ nd_pos' = nd_pos + 1
    /\ UNCHANGED <<stations_to_fetch, npc>>

\* return success_count, fail_count
ReturnCounts ==
    /\ npc = "loop" /\ nd_pos > Len(stations_to_fetch)
    /\ npc' = "returned"
    /\ UNCHANGED <<stations_to_fetch, nd_pos, success_count, fail_count,
                   stations_table, buoy_readings, nd_outcomes>>

NextNdbc ==
    \/ IngestStation /\ UNCHANGED <<batchVars, samplerVars, lutVars, rasterVars,
                                    lonVars, buoyVars, wwVars>>
    \/ ReturnCounts /\ UNCHANGED <<batchVars, samplerVars, lutVars, rasterVars,
                                   lonVars, buoyVars, wwVars>>

SpecNdbc == InitNdbc /\ [][NextNdbc]_vars

-----------------------------------------------------------------------------
(* sandbars-ingestion: ingest_wavewatch *)

\* Bound of the points one request answers with.
MaxPoints == 3

\* What fetch_erddap_region may come to for a hemisphere: an exception
\* (the request fails, the answer is not the JSON expected), or a list of
\* points, empty when the answer has no rows or only NaN heights.  A point
\* is its longitude, in degrees.
WestOutcomes ==
    {Fetch("failed", <<>>)} \cup {Fetch("ok", [k \in 1..n |-> -180 + 40 * k]) : n \in 0..MaxPoints}
EastOutcomes ==
    {Fetch("failed", <<>>)} \cup {Fetch("ok", [k \in 1..n |-> 40 * k]) : n \in 0..MaxPoints}

\* A slip: the points fetched so far returned from the except branch.
fetch_global_wavewatch_partial(west, east) ==
    IF west.status = "failed" THEN <<>>
    ELSE IF east.status = "failed" THEN west.points
    ELSE west.points \o east.points

\* fetch_global_wavewatch() with GLOBAL_BOUNDS (min_lon < 0 < max_lon): the
\* western request, then the eastern; an exception of either is caught and
\* [] returned.
fetch_global_wavewatch(west, east) ==
    IF west.status = "failed" THEN <<>>
    ELSE IF east.status = "failed" THEN <<>>
    ELSE west.points \o east.points

\* batch_size of upsert_wave_grid, and the number of its batches for n rows.
batch_size == 1000
Batches(n) == (n + batch_size - 1) \div batch_size

\* A storage write attempted: the table or path, and whether it went through.
Write(target, ok) == [target |-> target, ok |-> ok]

InitWavewatch ==
    /\ west_fetch = NoFetch /\ east_fetch = NoFetch /\ all_points = <<>>
    /\ writes = <<>> /\ ww_result = None /\ wpc = "start"
    /\ NdbcIdle
    /\ BatchIdle /\ SamplerIdle /\ LutIdle /\ RasterIdle /\ LonIdle /\ BuoyIdle

\* points = fetch_global_wavewatch()
FetchGlobal ==
    /\ wpc = "start"
    /\ \E w \in WestOutcomes, e \in EastOutcomes :
          /\ west_fetch' = w
          /\ east_fetch' = IF w.status = "failed" THEN NoFetch ELSE e
          /\ all_points' = fetch_global_wavewatch(w, e)
    /\ wpc' = "fetched"
    /\ UNCHANGED <<writes, ww_result>>

\* if not points: return 0
NoPoints ==
    /\ wpc = "fetched" /\ all_points = <<>>
    /\ ww_result' = 0 /\ wpc' = "returned"
    /\ UNCHANGED <<west_fetch, east_fetch, all_points, writes>>

\* storage.upsert_wave_grid(points, ...): one upsert per batch, a failed
\* one printed and passed over.
UpsertWaveGrid ==
    /\ wpc = "fetched" /\ all_points # <<>>
    /\ \E oks \in [1..Batches(Len(all_points)) -> BOOLEAN] :
          writes' = writes \o [k \in 1..Batches(Len(all_points)) |->
                                  Write("wave_grid", oks[k])]
    /\ wpc' = "grid"
    /\ UNCHANGED <<west_fetch, east_fetch, all_points, ww_result>>

\* storage.insert_forecast_run(...): its upsert is not inside a try, an
\* error leaves ingest_wavewatch.
InsertForecastRun ==
    /\ wpc = "grid"
    /\ \E db_ok \in BOOLEAN :
          /\ writes' = Append(writes, Write("forecast_runs", db_ok))
          /\ wpc' = IF db_ok THEN "run" ELSE "raised"
    /\ UNCHANGED <<west_fetch, east_fetch, all_points, ww_result>>

\* storage.update_latest(...): upload_json catches its errors; then
\* return len(points).
UpdateLatest ==
    /\ wpc = "run"
    /\ \E upload_ok \in BOOLEAN :
          writes' = Append(writes, Write("meta/latest.json", upload_ok))
    /\ ww_result' = Len(all_points) /\ wpc' = "returned"
    /\ UNCHANGED <<west_fetch, east_fetch, all_points>>

restOfWavewatch == <<batchVars, samplerVars, lutVars, rasterVars, lonVars, buoyVars, ndbcVars>>

NextWavewatch ==
    \/ FetchGlobal /\ UNCHANGED restOfWavewatch
    \/ NoPoints /\ UNCHANGED restOfWavewatch
    \/ UpsertWaveGrid /\ UNCHANGED restOfWavewatch
    \/ InsertForecastRun /\ UNCHANGED restOfWavewatch
    \/ UpdateLatest /\ UNCHANGED restOfWavewatch

SpecWavewatch == InitWavewatch /\ [][NextWavewatch]_vars

-----------------------------------------------------------------------------
(* The batch run: properties *)

Ended == pc \in {"done", "crashed"}

InFailed(f) == \E k \in 1..Len(failed_files) : failed_files[k] = f

\* The inputs whose conversion raised, in processing order, and the points
\* of those that returned.
RECURSIVE Raised(_)
Raised(as) ==
    IF as = <<>> THEN <<>>
    ELSE (IF Head(as).stage # Returned THEN <<Head(as).file>> ELSE <<>>)
         \o Raised(Tail(as))

RECURSIVE PointsReturned(_)
PointsReturned(as) ==
    IF as = <<>> THEN 0
    ELSE (IF Head(as).stage = Returned THEN Head(as).count ELSE 0)
         + PointsReturned(Tail(as))

\* C1: a failure of one input never aborts the batch: when main() has ended
\* every input found was attempted, and every input whose processing failed
\* (whatever the cause, a name without a forecast hour included) is in the
\* failed list.
C1_FailureNeverAbortsBatch ==
    Ended =>
        /\ Len(attempts) = Len(grib_files)
        /\ \A k \in 1..Len(grib_files) :
              \/ extract_forecast_hour(grib_files[k]) # None
                    /\ attempts[k].stage = Returned
              \/ InFailed(basename(grib_files[k]))

\* C2: a forecast hour is atomic for the caller: when main() has ended every
\* input either had its three rasters and its feature collection written, or
\* is in the failed list; an input not in the failed list had all four written.
C2_HourAtomic ==
    Ended =>
        \A k \in 1..Len(grib_files) :
            \/ InFailed(basename(grib_files[k]))
            \/ k <= Len(attempts) /\ attempts[k].wrote = AllKinds

\* C3: the batch ends with exit status 1 exactly when more than 10% of the
\* inputs failed; 10 inputs with 2 failures give succeeded = 8 and status 1.
C3_ThresholdRule ==
    pc = "done" =>
        /\ exit_status \in {0, 1}
        /\ exit_status = 1 <=> 10 * Len(failed_files) > Len(grib_files)
        /\ Len(grib_files) = 10 /\ Len(failed_files) = 2
              => succeeded = 8 /\ exit_status = 1

C3_TwoOfTenFailed ==
    /\ pc = "done" /\ Len(grib_files) = 10 /\ Len(failed_files) = 2
    /\ succeeded = 8 /\ exit_status = 1

\* C4: the failed list is exactly the inputs whose conversion raised, each
\* once and in processing order; total_features is the sum of the point
\* counts of the inputs whose conversion returned; and the summary's
\* succeeded plus the failed inputs is the number of inputs found.
C4_BatchAccounting ==
    /\ \A k \in 1..Len(attempts) : attempts[k].file = basename(grib_files[k])
    /\ failed_files = Raised(attempts)
    /\ \A a, b \in 1..Len(failed_files) : a # b => failed_files[a] # failed_files[b]
    /\ total_features = PointsReturned(attempts)
    /\ pc = "done" /\ grib_files # <<>> =>
          /\ Len(attempts) = Len(grib_files)
          /\ succeeded + Len(failed_files) = Len(grib_files)

C4_MixedBatchReported ==
    /\ pc = "done" /\ Len(grib_files) = 2 /\ Len(attempts) = 2
    /\ attempts[1].stage # Returned /\ attempts[2].stage = Returned
    /\ attempts[2].count = 2
    /\ failed_files = <<attempts[1].file>> /\ total_features = 2 /\ succeeded = 1

Range(seq) == {seq[k] : k \in 1..Len(seq)}

\* The ways the conversions of the inputs may end that agree with how the
\* conversions attempted did end.
Fates ==
    {fate \in [Range(grib_files) -> Stages] :
        \A k \in 1..Len(attempts) : fate[grib_files[k]] = attempts[k].stage}

\* C15: the inputs of a batch can be processed in any order: when main()
\* has ended, the files under the output directory, the inputs failed and
\* the number succeeded are those of the run in sorted order in which every
\* conversion ends the same way; and the files an input wrote are still its
\* own: no other input of the batch has overwritten them.
C15_OrderIndependent ==
    Ended =>
        /\ \E fate \in Fates :
              LET ref == main(sorted(Range(grib_files)), fate)
              IN  /\ ref.outputs = outputs
                  /\ Range(ref.failed_files) = Range(failed_files)
                  /\ ref.crashed = (pc = "crashed")
        /\ \A k \in 1..Len(attempts) :
              attempts[k].wrote
                 \subseteq Wrote(outputs, extract_forecast_hour(grib_files[k]),
                                 basename(grib_files[k]))

\* The default output wave-data.geojson, if written, and the inputs of hour
\* 0 whose conversion returned.
Legacy == {o \in outputs : o.kind = "legacy"}

HourZeroConverted ==
    {k \in 1..Len(attempts) :
        extract_forecast_hour(grib_files[k]) = 0 /\ attempts[k].stage = Returned}

\* C18: wave-data.geojson is written in a run exactly when an hour-0 input
\* was converted successfully in that run, and it is then a copy of the
\* feature collection of such an input, whole; a failed hour-0 input or an
\* input of another hour never has it written.
C18_LegacyFromHourZero ==
    /\ \A o \in Legacy :
          /\ o.complete
          /\ \E k \in HourZeroConverted : o.src = attempts[k].file
    /\ Ended /\ HourZeroConverted # {} => Legacy # {}

\* The last n characters of a text.
Suffix(t, n) == SubSeq(t, Len(t) - n + 1, Len(t))

\* '.f' and the 3-digit zero-padded form of each hour of 0..999.
HourMarks == [h \in 0..999 |-> <<".", "f">> \o Format03d(h)]

\* The hours whose mark ends the name (before .grib2).
HoursNamed(file) ==
    IF Len(NameStem(file)) < 5 THEN {}
    ELSE LET end == Suffix(NameStem(file), 5)
         IN  {h \in 0..999 : HourMarks[h] = end}

\* C19: extract_forecast_hour returns h for every name that ends with '.f',
\* three decimal digits and '.grib2', h being the hour those digits are the
\* zero-padded form of, and None for every other name; and every output of
\* an input is named with the three digits of the input's name.
C19_HourRoundTrip ==
    \A k \in 1..Len(grib_files) :
        LET file == grib_files[k]
            hours == HoursNamed(file)
        IN  /\ \A h \in hours : extract_forecast_hour(file) = h
            /\ hours = {} => extract_forecast_hour(file) = None
            /\ \A o \in outputs :
                  o.src = basename(file) =>
                      /\ hours # {}
                      /\ o.kind # "legacy" =>
                            Suffix(OutputName(o), 5)
                               = <<"-", "f">> \o Suffix(NameStem(file), 3)

\* The input of hour 24, converted: its four outputs are named -f024.
C19_Hour024Labelled ==
    /\ pc = "done" /\ Len(grib_files) = 1
    /\ grib_files[1].tail = <<"0", "2", "4">>
    /\ extract_forecast_hour(grib_files[1]) = 24
    /\ {OutputName(o) : o \in outputs} =
          {<<kind, "-", "f", "0", "2", "4">> : kind \in AllKinds}

-----------------------------------------------------------------------------
(* The feature sampler: properties *)

\* The indices 0, S, 2S, ... below n, and the cells with both indices such,
\* latitude index outer, longitude index inner.
Multiples(n, S) == {i \in 0..(n - 1) : i % S = 0}

RowMajor(d, S) ==
    LET nc == Cardinality(Multiples(d.nlon, S))
        nr == Cardinality(Multiples(d.nlat, S))
    IN  [k \in 1..(nr * nc) |-> <<((k - 1) \div nc) * S, ((k - 1) % nc) * S>>]

IsPrefix(a, b) == Len(a) <= Len(b) /\ \A k \in 1..Len(a) : a[k] = b[k]

\* The visited cells that are sea, in the order visited.
RECURSIVE SeaCells(_, _)
SeaCells(d, cells) ==
    IF cells = <<>> THEN <<>>
    ELSE (IF isnan(d.swh[Head(cells)]) THEN <<>> ELSE <<Head(cells)>>)
         \o SeaCells(d, Tail(cells))

PointOf(d, c) == <<convert_longitude(d.lons[c[2]]), d.lats[c[1]]>>

\* C5: the sampler visits exactly the cells whose indices are multiples of
\* the stride, in row-major order; it emits one feature per visited cell
\* with a wave height and none for a NaN cell, in scan order; the point
\* count is the number of visited sea cells and point count plus skipped
\* land is the number of visited cells.
C5_StrideScan ==
    /\ IsPrefix(visited, RowMajor(data, step))
    /\ spc = "done" => visited = RowMajor(data, step)
    /\ Len(features) = Len(SeaCells(data, visited))
    /\ \A k \in 1..Len(features) :
          features[k].coordinates = PointOf(data, SeaCells(data, visited)[k])
    /\ Len(features) + skipped_land = Len(visited)
    /\ spc = "done" => PointCount(data, step) = Len(features)

C5_StridedScanDone ==
    /\ spc = "done" /\ step = 2 /\ data.nlat = 2 /\ data.nlon = 3
    /\ visited = <<<<0, 0>>, <<0, 2>>>>
    /\ Len(features) = 1 /\ skipped_land = 1

\* The wave-height grid [[1.0, NaN], [3.0, 4.0]] sampled with stride 1.
ScenarioGrid ==
    /\ data.nlat = 2 /\ data.nlon = 2 /\ step = 1
    /\ data.swh = [c \in Cells(2, 2) |-> IF c = <<0, 1>> THEN NaN
                                        ELSE BaseHeight(2, c)]

WaveHeights == [k \in 1..Len(features) |-> features[k].waveHeight]

\* C6 as stated: the scenario grid yields exactly 2 features, each with the
\* source wave height rounded to 1 decimal place.
C6_TwoFeatures ==
    ScenarioGrid /\ spc = "done" =>
        /\ Len(features) = 2 /\ skipped_land = 1
        /\ \A k \in 1..Len(features) :
              features[k].waveHeight \in {1 * Unit, 3 * Unit, 4 * Unit}

\* C6 amended: the scenario grid yields exactly 3 features (the one NaN cell
\* skipped), with wave heights 1.0, 3.0 and 4.0 in scan order.
C6_ThreeFeatures ==
    ScenarioGrid /\ spc = "done" =>
        /\ Len(features) = 3 /\ skipped_land = 1
        /\ WaveHeights = <<1 * Unit, 3 * Unit, 4 * Unit>>

C6_ScenarioSampled == ScenarioGrid /\ spc = "done" /\ Len(visited) = 4

\* The partitions of a cell whose swell is kept, and the k-th of them.
KeptPartitions(d, c) ==
    {p \in 0..2 : ~isnan(d.shts[p][c]) /\ d.shts[p][c] >= MIN_SWELL_HEIGHT}

KthKept(d, c, k) ==
    CHOOSE p \in KeptPartitions(d, c) :
        Cardinality({q \in KeptPartitions(d, c) : q < p}) = k - 1

\* C7: the swells of every emitted feature are exactly the partitions whose
\* height is a number >= 0.1 m, in increasing partition index: at most 3,
\* a height of exactly 0.1 kept, NaN and smaller heights dropped.
C7_SwellsFiltered ==
    \A k \in 1..Len(features) :
        LET c == SeaCells(data, visited)[k]
            sw == features[k].swells
        IN  /\ Len(sw) = Cardinality(KeptPartitions(data, c))
            /\ Len(sw) <= 3
            /\ \A n \in 1..Len(sw) :
                  /\ sw[n].height = round1(data.shts[KthKept(data, c, n)][c])
                  /\ sw[n].period = round1(data.mpts[KthKept(data, c, n)][c])

\* A feature whose first partition is below the minimum, whose second is
\* exactly 0.1 m and whose third is larger.
C7_MinimumHeightKept ==
    /\ spc = "done" /\ Len(features) = 1
    /\ data.shts[0][<<0, 0>>] = 9
    /\ data.shts[1][<<0, 0>>] = 10
    /\ data.shts[2][<<0, 0>>] = 125
    /\ Len(features[1].swells) = 2
    /\ features[1].swells[1].height = 10
    /\ features[1].swells[2].height = 120

\* C17: every emitted feature has a wind record, its speed and its
\* direction 0 where the source value is NaN (else the source speed rounded
\* to 1 decimal place and a whole number of degrees); windWaves is present
\* exactly when the wind-sea height of the cell is a number > 0 (null for
\* NaN, 0 and negative heights), and its period and direction are null,
\* not 0, where their source values are NaN.
C17_WindAndWindWaves ==
    \A k \in 1..Len(features) :
        LET c == SeaCells(data, visited)[k]
            f == features[k]
        IN  /\ "wind" \in DOMAIN f
            /\ f.wind.speed = (IF isnan(data.ws[c]) THEN 0 ELSE round1(data.ws[c]))
            /\ isnan(data.wdir[c]) => f.wind.direction = 0
            /\ ~isnan(data.wdir[c]) => f.wind.direction \in 0..360
            /\ f.wind.speed # None /\ f.wind.direction # None
            /\ f.windWaves # <<>> <=> ~isnan(data.shww[c]) /\ data.shww[c] > 0
            /\ f.windWaves # <<>> =>
                  /\ f.windWaves[1].height = round1(data.shww[c])
                  /\ isnan(data.mpww[c]) <=> f.windWaves[1].period = None
                  /\ ~isnan(data.mpww[c]) => f.windWaves[1].period = round1(data.mpww[c])
                  /\ isnan(data.wvdir[c]) <=> f.windWaves[1].direction = None

\* A cell whose wind is NaN and whose wind sea of 0.36 m has no period and
\* no direction: wind 0 / 0, windWaves of height 0.4 with nulls.
C17_CalmWindSea ==
    /\ spc = "done" /\ Len(features) = 1
    /\ isnan(data.ws[<<0, 0>>]) /\ isnan(data.wdir[<<0, 0>>])
    /\ data.shww[<<0, 0>>] = 36
    /\ isnan(data.mpww[<<0, 0>>]) /\ isnan(data.wvdir[<<0, 0>>])
    /\ features[1].wind = [speed |-> 0, direction |-> 0]
    /\ features[1].windWaves = <<[height |-> 40, period |-> None, direction |-> None]>>

-----------------------------------------------------------------------------
(* build_color_lut: properties *)

FirstColor(color_ramp) == ColorOf(color_ramp.stops[1])
LastColor(color_ramp) == ColorOf(color_ramp.stops[Len(color_ramp.stops)])

\* C8: for any valid ramp and table length, the table built has the first
\* stop's color at index 0 and the last stop's color at index N - 1.
C8_EndpointsExact ==
    lpc = "done" =>
        /\ lut[0] = FirstColor(ramp)
        /\ lut[lut_size - 1] = LastColor(ramp)

\* v is an integer nearest to num / den (either neighbour at a tie).
IsNearest(v, num, den) ==
    LET d == den * v - num IN 2 * (IF d < 0 THEN -d ELSE d) <= den

\* C21: in the table built, for each pair of consecutive stops with
\* idx0 < idx1, every entry i of [idx0, idx1) holds, per channel, the linear
\* interpolation of the two stops' colors at (i - idx0) / (idx1 - idx0)
\* rounded to the nearest integer, within 0..255; and the ramp black to
\* white with N = 4 gives 0, 85, 170, 255 in the three color channels.
C21_InterpolationRounded ==
    lpc = "done" =>
        /\ \A i \in 1..(Len(ramp.stops) - 1) :
              LET idx0 == StopIndex(ramp, lut_size, i)
                  idx1 == StopIndex(ramp, lut_size, i + 1)
                  s0 == ColorOf(ramp.stops[i])
                  s1 == ColorOf(ramp.stops[i + 1])
              IN  \A j \in idx0..(idx1 - 1) : \A ch \in 1..4 :
                    /\ lut[j][ch] \in 0..255
                    /\ IsNearest(lut[j][ch],
                                 (idx1 - j) * s0[ch] + (j - idx0) * s1[ch],
                                 idx1 - idx0)
        /\ (/\ ramp = Ramp(PosDen, << <<0, 0, 0, 0, 255>>,
                                      <<PosDen, 255, 255, 255, 255>> >>)
            /\ lut_size = 4)
           => lut = [j \in 0..3 |-> <<85 * j, 85 * j, 85 * j, 255>>]

-----------------------------------------------------------------------------
(* apply_color_lut: properties *)

\* v <= bound and v >= bound for a pixel value of a raster and a bound in
\* hundredths.
AtMost(v, scale, bound) == ~isnan(v) /\ v <= bound * scale
AtLeast(v, scale, bound) == ~isnan(v) /\ v >= bound * scale

\* C9: with each layer's range and LUT, a pixel <= vmin gets the ramp's
\* first stop color, a pixel >= vmax the last stop color, a NaN pixel
\* (0, 0, 0, 0), whatever the other pixels; every index is in 0..L-1.
C9_BoundaryColors ==
    rpc = "mapped" =>
        \A k \in DOMAIN mercator.px :
            LET v == mercator.px[k]
            IN  /\ indices[k] \in 0..(LUT_SIZE - 1)
                /\ isnan(v) => rgba[k] = Transparent
                /\ AtMost(v, mercator.scale, LayerMin(layer))
                      => rgba[k] = FirstColor(LayerRamp(layer))
                /\ AtLeast(v, mercator.scale, LayerMax(layer))
                      => rgba[k] = LastColor(LayerRamp(layer))

C9_NaNBesideMaximum ==
    /\ rpc = "mapped" /\ layer = 2 /\ grid = NoArray
    /\ mercator.px = <<NaN, WAVE_PERIOD_MAX>>
    /\ rgba = <<Transparent, LastColor(WAVE_PERIOD_COLORS)>>
    /\ indices = <<0, LUT_SIZE - 1>>

\* C22: every pixel that is not NaN gets LUT[index] with index the nearest
\* integer to n * (L - 1), n = clamp((value - vmin) / (vmax - vmin), 0, 1),
\* and the index does not decrease as the pixel value grows.
C22_IndexRounded ==
    rpc = "mapped" =>
        /\ \A k \in DOMAIN mercator.px :
              LET v == mercator.px[k]
                  den == (LayerMax(layer) - LayerMin(layer)) * mercator.scale
                  n == Min(Max(v - LayerMin(layer) * mercator.scale, 0), den)
              IN  ~isnan(v) =>
                    /\ IsNearest(indices[k], n * (LUT_SIZE - 1), den)
                    /\ rgba[k] = luts[layer][indices[k]]
        /\ \A k, m \in DOMAIN mercator.px :
              (/\ ~isnan(mercator.px[k]) /\ ~isnan(mercator.px[m])
               /\ mercator.px[k] <= mercator.px[m])
              => indices[k] <= indices[m]

\* C16: the three tables are built once and never modified: after any
\* sequence of color-mapping calls over the layers and forecast hours,
\* rasters with NaN pixels (set to transparent in the output) included,
\* every entry of every table is what build_color_lut made it.
C16_LutsNeverModified ==
    luts = <<build_color_lut(WAVE_HEIGHT_COLORS, LUT_SIZE),
             build_color_lut(WAVE_PERIOD_COLORS, LUT_SIZE),
             build_color_lut(WIND_SPEED_COLORS, LUT_SIZE)>>

\* The fourth call, on the wave-height layer of a second forecast hour, with
\* a NaN pixel looked up at entry 0: the pixel is transparent, the entry is
\* the ramp's first color.
C16_NaNMappedTwice ==
    /\ rpc = "mapped" /\ calls = 4 /\ layer = 1
    /\ mercator.px = <<NaN, WAVE_HEIGHT_MAX>>
    /\ indices[1] = 0 /\ rgba[1] = Transparent
    /\ luts[1][0] = FirstColor(WAVE_HEIGHT_COLORS)

-----------------------------------------------------------------------------
(* reproject_to_mercator: properties *)

\* The weight (in 1 / WeightDen) with which the sample point of pixel p
\* falls on NaN cells of the array reprojected.
WeightOnNaN(a, p) ==
    LET cs == Corners(a, out_shape[1], out_shape[2], p)
        w(n) == IF isnan(a.at[<<cs[n][1], cs[n][2]>>]) THEN cs[n][3] ELSE 0
    IN  w(1) + w(2) + w(3) + w(4)

Reprojected == rpc \in {"reprojected", "mapped"}

\* C10: an output pixel is NaN exactly when the interpolated NaN mask at its
\* sample point exceeds 0.5, whatever the interpolated value: a pixel whose
\* sample point lies by majority on NaN cells is never reported as a number,
\* and a pixel whose mask is at most 0.5 is a number.
C10_MaskDecidesNaN ==
    Reprojected =>
        \A p \in DOMAIN mercator.px :
            /\ 2 * WeightOnNaN(shifted, p) > mercator.scale => isnan(mercator.px[p])
            /\ 2 * WeightOnNaN(shifted, p) <= mercator.scale => ~isnan(mercator.px[p])

\* An input whose last row is all NaN and whose first row is not: the
\* output's last row, weighted 0.97 on it, is NaN; the middle row, weighted
\* exactly 0.5 on it, is not.
C10_NaNRowKept ==
    /\ rpc = "reprojected" /\ shifted.h = 2 /\ shifted.w = 2 /\ out_shape = <<3, 3>>
    /\ \A j \in 0..1 : isnan(shifted.at[<<1, j>>]) /\ ~isnan(shifted.at[<<0, j>>])
    /\ \A c \in 0..2 : /\ isnan(mercator.px[<<2, c>>])
                       /\ ~isnan(mercator.px[<<1, c>>])
                       /\ ~isnan(mercator.px[<<0, c>>])

\* C23: every output pixel that is not NaN has a value between the least
\* and the greatest of the cells that are not NaN among the four cells it is
\* interpolated from: the 0 put in place of a NaN cell has no part in a
\* value reported as valid.
C23_NoBleedFromNaN ==
    Reprojected =>
        \A p \in DOMAIN mercator.px :
            LET cs == Corners(shifted, out_shape[1], out_shape[2], p)
                cell(n) == shifted.at[<<cs[n][1], cs[n][2]>>]
                valid == {n \in 1..4 : ~isnan(cell(n))}
                v == mercator.px[p]
            IN  ~isnan(v) =>
                  /\ \E n \in valid : cell(n) * mercator.scale <= v
                  /\ \E n \in valid : cell(n) * mercator.scale >= v

\* The value of a layer array whose cells all hold one number, else NaN.
UniformValue(a) ==
    IF a.h > 0 /\ a.w > 0 /\ \A c \in Cells(a.h, a.w) :
                              ~isnan(a.at[c]) /\ a.at[c] = a.at[<<0, 0>>]
    THEN a.at[<<0, 0>>] ELSE NaN

-----------------------------------------------------------------------------
(* convert_longitude: properties *)

\* Re-adding 360 to a negative longitude.
Readd360(lon) == IF lon < 0 THEN lon + 360 * Unit ELSE lon

\* The longitude of (-180, 180] that lon_in stands for when the raw
\* longitudes are counted from just above -180: every longitude of
\* (-180, 180] is the TargetOf of one raw longitude.
TargetOf(raw) == raw - 180 * Unit + 1

\* C12: for every raw longitude of [0, 360), convert_longitude returns raw
\* - 360 if raw > 180 and raw otherwise, a value of (-180, 180]; applied
\* again it returns the same value; re-adding 360 to a negative result
\* recovers raw (so no two raw longitudes share a result); and every
\* longitude of (-180, 180] is the result of a raw longitude of [0, 360).
C12_LongitudeBijection ==
    /\ lon_calls >= 1 =>
          /\ lon_out = (IF lon_in > 180 * Unit THEN lon_in - 360 * Unit ELSE lon_in)
          /\ lon_out > -180 * Unit /\ lon_out <= 180 * Unit
          /\ Readd360(lon_out) = lon_in
    /\ lon_calls = 2 => lon_out = convert_longitude(lon_in)
    /\ LET target == TargetOf(lon_in)
       IN  /\ target > -180 * Unit /\ target <= 180 * Unit
           /\ Readd360(target) \in RawLongitudes
           /\ convert_longitude(Readd360(target)) = target

\* The raw longitude 180 stays 180, also when converted again.
C12_AntimeridianKept == lon_in = 180 * Unit /\ lon_calls = 2 /\ lon_out = 180 * Unit

-----------------------------------------------------------------------------
(* fetch-buoys.py: properties *)

InRange(v, name) ==
    /\ v # None /\ ~isnan(v)
    /\ VALID_RANGES[name][1] <= v /\ v <= VALID_RANGES[name][2]

\* C13: validate_value returns the value unchanged exactly when it is not
\* None and the field has no range or lo <= value <= hi, both ends
\* included, and None otherwise; every range has lo <= hi, and each of the
\* ten observation fields has a range.
C13_ValidateValue ==
    /\ vpc = "returned" =>
          LET kept == /\ candidate # None
                      /\ \/ field_name \notin DOMAIN VALID_RANGES
                         \/ InRange(candidate, field_name)
          IN  /\ kept => validated = candidate
              /\ ~kept => validated = None
    /\ \A name \in DOMAIN VALID_RANGES : VALID_RANGES[name][1] <= VALID_RANGES[name][2]
    /\ \A k \in 1..Len(ObservationFields) : ObservationFields[k] \in DOMAIN VALID_RANGES
    /\ Len(ObservationFields) = 10 /\ Cardinality(DOMAIN VALID_RANGES) = 10

\* A wave height of exactly 30 m, the upper end of its range, is kept.
C13_UpperEndKept ==
    /\ vpc = "returned" /\ field_name = "wave_height"
    /\ candidate = 30 * Unit /\ validated = 30 * Unit

\* The texts that are a decimal number: an optional sign, then digits with
\* at most one point among them and at least one digit.
IsDecimal(t) ==
    LET body == IF t # <<>> /\ t[1] = "-" THEN Tail(t) ELSE t
    IN  /\ body # <<>>
        /\ \A k \in 1..Len(body) : IsDigit(body[k]) \/ body[k] = "."
        /\ Cardinality({k \in 1..Len(body) : body[k] = "."}) <= 1
        /\ \E k \in 1..Len(body) : IsDigit(body[k])

\* The texts float() reads as an infinity or a nan.
IsSpecialFloat(t) ==
    t \in {<<"i", "n", "f">>, <<"-", "i", "n", "f">>, <<"n", "a", "n">>, <<"-", "n", "a", "n">>}

\* C14: parse_float and parse_int never raise on a text field; both return
\* None for None, '', 'MM' and every text that is no number; for a decimal
\* text parse_float returns its value and parse_int its value truncated
\* toward zero.
C14_ParsersNeverRaise ==
    /\ ppc # "raised"
    /\ ppc = "returned" =>
          /\ value \in {NoneText, <<>>, MM} => parsed = NoneResult
          /\ value # NoneText /\ ~IsDecimal(value) /\ ~IsSpecialFloat(value)
                => parsed = NoneResult
          /\ value # NoneText /\ IsDecimal(value) =>
                /\ parser = "parse_float" => parsed = float(value)
                /\ parser = "parse_int" =>
                      LET x == float(value)
                      IN  /\ parsed.kind = "int"
                          /\ x.num >= 0 => /\ parsed.num * x.scale <= x.num
                                            /\ x.num < (parsed.num + 1) * x.scale
                          /\ x.num < 0 => /\ parsed.num * x.scale >= x.num
                                           /\ x.num > (parsed.num - 1) * x.scale

\* The positions, among the first n stations, of those with at least one
\* observation value that is not null, observation_time aside.
WithValue(n) ==
    {k \in 1..n :
        /\ stations[k].id \in DOMAIN observations
        /\ \E j \in 1..10 : observations[stations[k].id][ObservationFields[j]] # None}

\* C20: build_geojson emits a feature for a station exactly when the
\* station has an observation row with at least one value that is not null
\* (observation_time aside); the features are in station order;
\* station_count is the number of features, total_stations the number of
\* stations, and features plus skipped is total_stations.
C20_StationsWithData ==
    LET done == WithValue(station_pos - 1)
    IN  /\ Len(buoy_features) = Cardinality(done)
        /\ \A j \in 1..Len(buoy_features) :
              LET k == CHOOSE k \in done : Cardinality({i \in done : i < k}) = j - 1
              IN  /\ buoy_features[j].properties.station_id = stations[k].id
                  /\ buoy_features[j].coordinates = <<stations[k].lon, stations[k].lat>>
        /\ Len(buoy_features) + skipped_empty = station_pos - 1
        /\ bpc = "returned" =>
              /\ station_pos - 1 = Len(stations)
              /\ geojson.station_count = Len(buoy_features)
              /\ geojson.total_stations = Len(stations)
              /\ Len(buoy_features) + skipped_empty = geojson.total_stations

\* Three stations: the first without a row, the second with nothing but
\* nulls and a time, the third with a wind speed of 0 as its only value:
\* one feature, the third station's.
C20_ZeroIsData ==
    /\ bpc = "returned" /\ Len(stations) = 3
    /\ stations[1].id \notin DOMAIN observations
    /\ {stations[2].id, stations[3].id} \subseteq DOMAIN observations
    /\ observations[stations[2].id] = Obs(<<>>, 300)
    /\ observations[stations[3].id] = Obs([wind_speed |-> 0], 300)
    /\ Len(buoy_features) = 1 /\ skipped_empty = 2
    /\ buoy_features[1].properties.station_id = stations[3].id
    /\ buoy_features[1].properties.wind_speed = 0
    /\ geojson = [station_count |-> 1, total_stations |-> 3]

\* out (hundredths) is src rounded to 1 decimal place.
Rounded1(out, src) == out % 10 = 0 /\ IsNearest(out \div 10, src, 10)

\* out is the whole number of degrees nearest to src, within [0, 360) when
\* src is.
NearestDegree(out, src) ==
    /\ IsNearest(out, src, Unit)
    /\ src \in 0..(360 * Unit - 1) => out \in 0..359

\* out is the whole degrees of src, its fraction dropped, within [0, 360)
\* when src is.
WholeDegrees(out, src) ==
    /\ IF src >= 0 THEN out * Unit <= src /\ src < (out + 1) * Unit
                   ELSE out * Unit >= src /\ src > (out - 1) * Unit
    /\ src \in 0..(360 * Unit - 1) => out \in 0..359

\* The numeric fields of the properties of every emitted feature, against
\* their source values where these are numbers: the directions by DirOk,
\* the others rounded to 1 decimal place.
EmittedFields(DirOk(_, _)) ==
    \A k \in 1..Len(features) :
        LET c == SeaCells(data, visited)[k]
            f == features[k]
        IN  /\ Rounded1(f.waveHeight, data.swh[c])
            /\ \A n \in 1..Len(f.swells) :
                  LET q == KthKept(data, c, n)
                  IN  /\ Rounded1(f.swells[n].height, data.shts[q][c])
                      /\ ~isnan(data.mpts[q][c])
                            => Rounded1(f.swells[n].period, data.mpts[q][c])
                      /\ ~isnan(data.swdir[q][c])
                            => DirOk(f.swells[n].direction, data.swdir[q][c])
            /\ ~isnan(data.ws[c]) => Rounded1(f.wind.speed, data.ws[c])
            /\ ~isnan(data.wdir[c]) => DirOk(f.wind.direction, data.wdir[c])
            /\ f.windWaves # <<>> =>
                  /\ Rounded1(f.windWaves[1].height, data.shww[c])
                  /\ ~isnan(data.mpww[c])
                        => Rounded1(f.windWaves[1].period, data.mpww[c])
                  /\ ~isnan(data.wvdir[c])
                        => DirOk(f.windWaves[1].direction, data.wvdir[c])

Column(a, j) == [i \in 0..(a.h - 1) |-> a.at[<<i, j>>]]

\* C25: the shift of a layer array moves, in every row, source column s to
\* column (s + W / 2) mod W (W / 2 the whole half of the width W): no column
\* is lost or duplicated, the rows stay in place, the source column at
\* longitude 0 lands at column W / 2 and, for an even W, column 0 holds the
\* source column at 180 degrees.
C25_CyclicShift ==
    rpc # "input" =>
        LET W == grid.w
            half == W \div 2
            to(s) == (s + half) % W
        IN  /\ shifted.h = grid.h /\ shifted.w = W
            /\ DOMAIN shifted.at = DOMAIN grid.at
            /\ \A s \in 0..(W - 1) : Column(shifted, to(s)) = Column(grid, s)
            /\ \A s, t \in 0..(W - 1) : to(s) = to(t) => s = t
            /\ \A j \in 0..(W - 1) : \E s \in 0..(W - 1) : to(s) = j
            /\ Column(shifted, half) = Column(grid, 0)
            /\ W % 2 = 0 =>
                  \A s \in 0..(W - 1) :
                      LonAxis(W)[s] = 180 * Unit => Column(shifted, 0) = Column(grid, s)

\* A 1 x 2 array of 1.0 and 2.0 (longitudes 0 and 180), shifted: 2.0, 1.0.
C25_HalvesSwapped ==
    /\ rpc = "shifted" /\ grid.h = 1 /\ grid.w = 2
    /\ grid.at[<<0, 0>>] = 100 /\ grid.at[<<0, 1>>] = 200
    /\ shifted.at[<<0, 0>>] = 200 /\ shifted.at[<<0, 1>>] = 100

\* C26: for any valid ramp and N >= 2 the slices [idx0, idx1) of the
\* consecutive segments tile 0..N-2, each starting where the one before
\* ended, without gap or overlap (a degenerate segment is empty); the table
\* built has had every entry 0..N-1 assigned exactly once, and while it is
\* built no entry is assigned twice.
C26_SegmentsTile ==
    lpc # "idle" =>
        LET last == Len(ramp.stops) - 1
            slice(i) == SegmentSlice(ramp, lut_size, i)
        IN  /\ StopIndex(ramp, lut_size, 1) = 0
            /\ StopIndex(ramp, lut_size, last + 1) = lut_size - 1
            /\ \A i \in 1..last :
                  StopIndex(ramp, lut_size, i) <= StopIndex(ramp, lut_size, i + 1)
            /\ \A i, j \in 1..last : i # j => slice(i) \cap slice(j) = {}
            /\ UNION {slice(i) : i \in 1..last} = 0..(lut_size - 2)
            /\ \A j \in DOMAIN written : written[j] <= 1
            /\ \A j \in UNION {slice(i) : i \in 1..(seg - 1)} : written[j] = 1
            /\ lpc = "done" => \A j \in 0..(lut_size - 1) : written[j] = 1

\* A table of 4 entries built from three stops at 0, 1/4 and 1: the first
\* segment is degenerate, the second fills entries 0..2, the last entry is
\* filled on its own.
C26_DegenerateSegmentSkipped ==
    /\ lpc = "done" /\ lut_size = 4 /\ Len(ramp.stops) = 3
    /\ SegmentSlice(ramp, lut_size, 1) = {}
    /\ SegmentSlice(ramp, lut_size, 2) = 0..2
    /\ written = [j \in 0..3 |-> 1]

\* C27: ingest_ndbc's two counts add up to the number of stations
\* processed; a station counts as a success only if its observation was
\* fetched, parsed and stored, and as failed otherwise, a reading that
\* could not be stored included; a failed station upsert does not keep
\* the remaining stations from being processed.
C27_SuccessMeansStored ==
    npc # "idle" =>
        LET done == 1..Len(nd_outcomes)
            good == {k \in done : nd_outcomes[k].response = "ok" /\ nd_outcomes[k].stored}
        IN  /\ Len(nd_outcomes) = nd_pos - 1
            /\ success_count + fail_count = Len(nd_outcomes)
            /\ success_count = Cardinality(good)
            /\ fail_count = Cardinality(done \ good)
            /\ \A k \in good : nd_outcomes[k].station \in buoy_readings
            /\ npc = "returned" => Len(nd_outcomes) = Len(stations_to_fetch)

\* The place of a write in the order wave grid, forecast run, latest pointer.
WriteRank(w) ==
    CASE w.target = "wave_grid" -> 1
      [] w.target = "forecast_runs" -> 2
      [] OTHER -> 3

\* C28: ingest_wavewatch attempts its writes in the order wave-grid upsert,
\* forecast-run record, latest pointer (each of the last two once, each
\* only after the one before it), and none when the fetch gave no points;
\* fetch_global_wavewatch gives the points of both hemispheres' requests,
\* west then east, or none at all: if either request fails, the points
\* fetched for the other are dropped and nothing is written.
C28_WritesInOrder ==
    wpc \notin {"idle", "start"} =>
        LET failed == west_fetch.status = "failed" \/ east_fetch.status = "failed"
            n == Len(writes)
        IN  /\ \A i, j \in 1..n : i < j => WriteRank(writes[i]) <= WriteRank(writes[j])
            /\ \A i, j \in 1..n :
                  (i # j /\ WriteRank(writes[i]) = WriteRank(writes[j]))
                  => WriteRank(writes[i]) = 1
            /\ \A j \in 1..n :
                  WriteRank(writes[j]) > 1
                  => \E i \in 1..(j - 1) : WriteRank(writes[i]) = WriteRank(writes[j]) - 1
            /\ all_points = <<>> => writes = <<>>
            /\ failed => all_points = <<>> /\ writes = <<>>
            /\ ~failed => all_points = west_fetch.points \o east_fetch.points
            /\ (wpc = "returned" /\ all_points # <<>>) =>
                  /\ WriteRank(writes[n]) = 3 /\ WriteRank(writes[n - 1]) = 2
                  /\ ww_result = Len(all_points)
            /\ (wpc = "returned" /\ all_points = <<>>) => ww_result = 0

\* One point from each hemisphere, stored: the three writes in order, 2
\* returned.
C28_BothHemispheresStored ==
    /\ wpc = "returned"
    /\ west_fetch = Fetch("ok", <<-140>>) /\ east_fetch = Fetch("ok", <<40>>)
    /\ all_points = <<-140, 40>>
    /\ writes = <<Write("wave_grid", TRUE), Write("forecast_runs", TRUE),
                  Write("meta/latest.json", TRUE)>>
    /\ ww_result = 2

====
